---- MODULE Spec2Model ----
(***************************************************************************)
(* A model of VidCollector (otoofim/VidCollector):                         *)
(*   - the link-frontier crawl, YouTubeScraper.find_farsi_videos, as it is *)
(*     called by the scraping FarsiVideoCrawler.crawl_from_url (SpecCrawl);*)
(*   - the scraping ingestion loop, crawl_from_url / _process_video, over  *)
(*     the SQLite store and the mapping file (SpecIngest);                 *)
(*   - the SQLite tables themselves, through DatabaseManager (SpecDb).     *)
(* The three parts share one set of variables; each specification keeps    *)
(* the variables of the other parts at their initial values.               *)
(***************************************************************************)
EXTENDS Integers, Sequences, FiniteSets, Bags, TLC

(***************************************************************************)
(* Bounds of the model.                                                    *)
(***************************************************************************)
\* number of distinct content ids in the modelled part of the platform
NumIds == 2
\* longest related-video list a page returns (the code reads at most 20)
MaxRelated == 2
\* largest max_videos argument tried
MaxVideosBound == 2
\* frontier cap; youtube_scraper.py:367 hard-codes 100, scaled down here so
\* that the truncation acts within the other bounds
QueueLimit == 2

\* number of I/O faults (sqlite errors, unwritable or unreadable files) the
\* environment injects into one behaviour of SpecIngest
MaxFaults == 1
\* largest number of videos handed to the thread pool
MaxSubmitted == 2
\* largest MAX_CONCURRENT_DOWNLOADS tried
MaxWorkers == 2
\* longest title and longest description given to the language score
MaxTextLen == 2
\* the step cap C30 speaks of, as a number of page fetches;
\* find_farsi_videos takes no such parameter
MaxStepCount == 2
\* longest start_urls list given to crawl_multiple_urls
MaxStartUrls == 2
\* longest text given to detect_farsi
MaxDetectLen == 4
\* number of DatabaseManager calls in one behaviour of SpecDb
MaxDbOps == 3
\* number of different metadata payloads a search result of one id may carry
NumPayloads == 2
\* number of crawler instances that share one database file
NumInstances == 2
\* longest list of accepted items one of these instances processes
MaxInstanceItems == 2

\* Python's None, as extract_video_id returns it; the content ids are 1..NumIds
None == 0

Min(a, b) == IF a < b THEN a ELSE b

SeqsUpTo(S, n) == UNION {[1..k -> S] : k \in 0..n}

Range(s) == {s[i] : i \in 1..Len(s)}

(***************************************************************************)
(* Locators.  A locator is <<form, id>>:                                   *)
(*   "watch"  https://www.youtube.com/watch?v=<id>                         *)
(*   "short"  https://youtu.be/<id>   (youtube.com/embed/<id> and          *)
(*            youtube.com/v/<id> behave the same: an id, no "watch?v=")    *)
(*   "other"  a URL none of the id patterns matches                        *)
(***************************************************************************)
VideoIds == 1..NumIds

WatchUrls == {<<"watch", i>> : i \in VideoIds}

ShortUrls == {<<"short", i>> : i \in VideoIds}

InvalidUrl == <<"other", 0>>

Urls == WatchUrls \cup ShortUrls \cup {InvalidUrl}

\* YouTubeScraper.extract_video_id: the 11-character id behind one of the
\* known URL shapes, None when no pattern matches
extract_video_id(url) == IF url[1] \in {"watch", "short"} THEN url[2] ELSE None

\* start URLs tried: by the symmetry of the ids, the seed is about id 1
StartUrls == {<<"watch", 1>>, <<"short", 1>>, InvalidUrl}

\* _extract_related_videos keeps a sidebar entry only if its href contains
\* "watch?v=" and extract_video_id finds an id; each entry carries the
\* pre-filter verdict of detect_farsi on its title and channel. The loop reads
\* the url of an entry only when its verdict is true (line 362: the `and`
\* stops at a false verdict), so one locator stands for the entries whose
\* verdict is false
RelatedEntries ==
    {r \in [url : {u \in WatchUrls : extract_video_id(u) # None}, is_farsi : BOOLEAN] :
        r.is_farsi \/ r.url = <<"watch", 1>>}

RelatedLists == SeqsUpTo(RelatedEntries, MaxRelated)

\* the crawler processes that run at the same time on one database file
Instances == 1..NumInstances

VARIABLES
    \* ---- find_farsi_videos / crawl_from_url --------------------------------
    start_url,      \* argument
    max_videos,     \* argument
    farsi_videos,   \* the accepted video_info records, in order
    visited_urls,   \* set of locators
    urls_to_visit,  \* the frontier queue
    pc,             \* "loop" | "returned" | "process" | "idle"
    stats,          \* crawl_from_url's stats dictionary
    \* history of the crawl (not program state)
    fetch_count,    \* locator -> number of scrape_video_page calls with it
    fetch_log,      \* the scrape_video_page calls in order: the locator and
                    \* the is_farsi the loop read from the result
    slice_outcome,  \* what the slice of line 367 did in the latest
                    \* expansion to the list it was given
    failed_fetches, \* number of scrape_video_page calls that failed
    last,           \* outcome of the latest loop iteration
    \* ---- the SQLite store and the mapping file ------------------------------
    videos,         \* table videos: a bag of rows
    subtitles,      \* table subtitles: a bag of rows
    mapping,        \* downloads/video_subtitle_mapping.txt: a sequence of lines
    \* ---- crawl_from_url's processing loop -----------------------------------
    download_content, \* argument
    idx,            \* position of the for loop in farsi_videos
    run,            \* 1: first crawl_from_url call, 2: the same call repeated
    \* history of the store and of the ingestion (not program state)
    db_ops,         \* number of DatabaseManager calls made
    inserted,       \* video_id -> number of insert_video calls that returned True
    written,        \* (video_id, language, subtitle_type) -> the contents of
                    \* the insert_subtitle calls that returned True, in order
    skipped,        \* items of this run that took the already-present return
    captions_stored, \* insert_subtitle calls of this run that returned True
    faults,         \* I/O faults injected so far
    meta_failed,    \* some video_exists or insert_video call of the ingestion
                    \* hit an sqlite error
    snapshot,       \* the store when the first run returned
    insert_called,  \* positions of this run's items for which insert_video
                    \* was called
    persist_failed, \* positions of this run's items whose insert_video call
                    \* returned False
    download_called, \* positions of this run's items for which
                    \* download_video_with_subtitles was called
    video_retrieved, \* positions of this run's items whose download_video
                    \* call returned a file
    \* ---- _process_videos_with_subtitles (crawler.py) ------------------------
    MAX_CONCURRENT_DOWNLOADS, \* Config.MAX_CONCURRENT_DOWNLOADS
    future_to_video, \* the submitted videos, in submission order
    task,           \* future -> "pending" | "running" | "done" | "cancelled"
    task_result,    \* future -> what _process_single_video returned
    collected,      \* the futures the as_completed loop has handled
    crawler_stats,  \* self.stats of the API crawler
    processed_videos, \* self.processed_videos
    failed_videos,  \* self.failed_videos
    pool_pc,        \* "idle" | "pool" | "returned"
    \* history of the pool (not program state)
    fetch_failed,   \* the futures whose extract_subtitles call hit an exception
    stored_total,   \* sum of the subtitles_stored counts the tasks returned
    \* ---- FarsiVideoCrawler.__init__ and crawl_farsi_videos (crawler.py) -----
    YOUTUBE_API_KEY, \* Config.YOUTUBE_API_KEY
    api_pc,         \* position in the constructor and in crawl_farsi_videos
    db_opened,      \* DatabaseManager(...) has been constructed
    session_status, \* status of the crawl_sessions row: "none" when absent
    api_requests,   \* number of search results fetched from the platform
    search_queue,   \* the results the search generator has still to yield
    api_videos,     \* the list `videos` of _search_videos
    api_max_videos, \* argument max_videos
    extract_subtitles_arg, \* argument extract_subtitles
    search_queries, \* argument search_queries: "None" | "custom"
    \* history of the search (not program state)
    search_failed,  \* number of search requests that raised HttpError
    \* ---- the language score (youtube_scraper.py:250-258) -------------------
    text_to_check,  \* the title and description: a sequence of characters,
                    \* each given by its class
    farsi_score,    \* info['farsi_score']: <<numerator, denominator>>
    score_pc,       \* "idle" | "new" | "scored"
    \* ---- FarsiDetector.detect_farsi (youtube_scraper.py:43-78) -------------
    text_arg,       \* argument text: a sequence of characters, by class
    min_farsi_ratio, \* argument: <<numerator, denominator>>
    detected_lang,  \* what langdetect's detect(text) does: a language code,
                    \* or "raise" for LangDetectException
    detect_farsi_result, \* the value returned
    detect_pc,      \* "idle" | "call" | "returned"
    \* ---- crawl_multiple_urls (scraping_crawler.py:101-146) -----------------
    start_urls,     \* argument
    max_videos_per_url, \* argument
    combined_stats, \* the combined statistics
    url_i,          \* number of start URLs the for loop has finished
    multi_pc,       \* "idle" | "loop" | "call" | "returned"
    \* history of crawl_multiple_urls (not program state)
    found_of_url,   \* the videos_found of each crawl_from_url call, in order
    \* ---- crawler instances on one database (scraping_crawler.py:148-229) ---
    inst_items,     \* instance -> the content ids of its accepted items
    inst_idx,       \* instance -> position of its for loop
    inst_pc,        \* instance -> "idle" | "check" | "insert" | "download" | "done"
    inst_download_content, \* argument download_content of the instances
    \* history of the instances (not program state)
    inst_inserted,  \* instance -> the ids its insert_video calls stored
    inst_downloaded, \* instance -> the ids it called the download for
    inst_skipped    \* instance -> the ids it found already present

crawlVars == <<start_url, max_videos, farsi_videos, visited_urls, urls_to_visit,
               pc, stats, fetch_count, fetch_log, slice_outcome, failed_fetches,
               last>>

storeVars == <<videos, subtitles, mapping>>

ingestVars == <<download_content, idx, run, skipped, captions_stored, faults, meta_failed,
                snapshot, insert_called, persist_failed, download_called,
                video_retrieved>>

dbHistVars == <<db_ops, inserted, written>>

poolVars == <<MAX_CONCURRENT_DOWNLOADS, future_to_video, task, task_result, collected,
              crawler_stats, processed_videos, failed_videos, pool_pc, fetch_failed,
              stored_total>>

apiVars == <<YOUTUBE_API_KEY, api_pc, db_opened, session_status, api_requests,
             search_queue, api_videos, api_max_videos, extract_subtitles_arg,
             search_queries, search_failed>>

detectVars == <<text_arg, min_farsi_ratio, detected_lang, detect_farsi_result,
                detect_pc>>

classifyVars == <<text_to_check, farsi_score, score_pc, detectVars>>

multiVars == <<start_urls, max_videos_per_url, combined_stats, url_i, multi_pc,
               found_of_url>>

sharedVars == <<inst_items, inst_idx, inst_pc, inst_download_content,
                inst_inserted, inst_downloaded, inst_skipped>>

vars == <<crawlVars, storeVars, ingestVars, dbHistVars, poolVars, apiVars,
          classifyVars, multiVars, sharedVars>>

(***************************************************************************)
(* The SQLite store (database.py).  A table is a bag of rows; a row holds  *)
(* the columns the claims read.                                            *)
(***************************************************************************)
Languages == {"fa", "en"}

SubtitleTypes == {"manual", "auto"}

Contents == {"text_a", "text_b"}

\* the UNIQUE(video_id, language, subtitle_type) key of table subtitles
SubtitleKeys == [video_id : VideoIds, language : Languages, subtitle_type : SubtitleTypes]

\* the columns CREATE TABLE gives the two tables (database.py:27-60)
VideosColumns ==
    {"id", "video_id", "title", "description", "channel_id", "channel_title",
     "duration", "view_count", "like_count", "published_at", "language", "tags",
     "thumbnail_url", "created_at", "updated_at"}

SubtitlesColumns ==
    {"id", "video_id", "language", "subtitle_type", "content", "file_path",
     "created_at"}

\* rows of videos: the UNIQUE video_id and what the other columns were
\* written from: <<"api", n>> for the n-th metadata payload of a search
\* result, the locator for a scraped page (its url is stored in tags)
VideoRow(video_id, payload) == [video_id |-> video_id, payload |-> payload]

SubtitleRow(key, content) ==
    [video_id |-> key.video_id, language |-> key.language,
     subtitle_type |-> key.subtitle_type, content |-> content]

KeyOf(row) ==
    [video_id |-> row.video_id, language |-> row.language,
     subtitle_type |-> row.subtitle_type]

\* the rows of `table` that satisfy Test
RowsWhere(table, Test(_)) == {r \in BagToSet(table) : Test(r)}

\* number of rows of `table` that satisfy Test
CountWhere(table, Test(_)) ==
    LET rows == RowsWhere(table, Test)
    IN  BagCardinality([r \in rows |-> table[r]])

\* INSERT OR REPLACE: the rows that collide with the new row on a UNIQUE
\* constraint are deleted, then the row is inserted
InsertOrReplace(table, row, Conflict(_, _)) ==
    LET keep == {r \in BagToSet(table) : ~Conflict(r, row)}
    IN  [r \in keep |-> table[r]] (+) SetToBag({row})

\* UNIQUE of videos.video_id (database.py:30)
VideosUnique_Missing(r, new) == FALSE

VideosUnique(r, new) == r.video_id = new.video_id

\* UNIQUE(video_id, language, subtitle_type) (database.py:58)
SubtitlesUnique_Missing(r, new) == FALSE

SubtitlesUnique(r, new) == KeyOf(r) = KeyOf(new)

\* DatabaseManager.insert_video (database.py:79-111); io_ok is false when
\* sqlite raises (locked or unwritable file), which the method turns into False
DatabaseManager_insert_video(table, row, io_ok) ==
    IF io_ok
    THEN [ok |-> TRUE, table |-> InsertOrReplace(table, row, VideosUnique)]
    ELSE [ok |-> FALSE, table |-> table]

\* DatabaseManager.insert_subtitle (database.py:113-130)
DatabaseManager_insert_subtitle(table, row, io_ok) ==
    IF io_ok
    THEN [ok |-> TRUE, table |-> InsertOrReplace(table, row, SubtitlesUnique)]
    ELSE [ok |-> FALSE, table |-> table]

\* DatabaseManager.video_exists (database.py:132-137)
DatabaseManager_video_exists(table, video_id) ==
    CountWhere(table, LAMBDA r : r.video_id = video_id) > 0

\* DatabaseManager.get_video_count (database.py:139-144): SELECT COUNT(*)
get_video_count(table) == BagCardinality(table)

\* the all-NULL right side a LEFT JOIN gives a row without a match
NullSubtitle ==
    [video_id |-> None, language |-> "NULL", subtitle_type |-> "NULL", content |-> "NULL"]

\* the ON clause of get_videos_without_subtitles (database.py:161, 167); an
\* empty language takes the branch without the language test
JoinOn_AnyLanguage(v, s, language) == v.video_id = s.video_id

JoinOn(v, s, language) ==
    /\ v.video_id = s.video_id
    /\ (language # "" => s.language = language)

\* videos v LEFT JOIN subtitles s ON ...: every matching pair, and the pair
\* with the NULL row for a video without a match
LeftJoin(vtable, stable, language) ==
    {p \in BagToSet(vtable) \X (BagToSet(stable) \cup {NullSubtitle}) :
        IF p[2] = NullSubtitle
        THEN \A sub \in BagToSet(stable) : ~JoinOn(p[1], sub, language)
        ELSE JoinOn(p[1], p[2], language)}

\* DatabaseManager.get_videos_without_subtitles (database.py:153-171):
\* WHERE s.video_id IS NULL, SELECT v.video_id
get_videos_without_subtitles(vtable, stable, language) ==
    {p[1].video_id : p \in {q \in LeftJoin(vtable, stable, language) :
                                 q[2].video_id = None}}

\* the columns VideoDatabase's statements name (database.py:245-247, 266-267)
VideoDatabaseVideoColumns ==
    {"video_id", "title", "description", "channel_title", "published_at",
     "duration", "view_count", "like_count", "language", "tags", "thumbnail_url"}

VideoDatabaseSubtitleColumns ==
    {"video_id", "language", "content", "format", "source", "file_path",
     "word_count", "char_count"}

\* NOT NULL columns without a default (database.py:30-31, 51-54)
VideosNotNull == {"video_id", "title"}

SubtitlesNotNull == {"video_id", "language", "subtitle_type", "content"}

\* sqlite accepts an INSERT when every named column exists and every NOT NULL
\* column without a default is given
StatementAccepted(named, columns, notnull) == named \subseteq columns /\ notnull \subseteq named

\* VideoDatabase.video_exists (database.py:226-234): False when sqlite raises
VideoDatabase_video_exists_Never(table, video_id, io_ok) == FALSE

VideoDatabase_video_exists(table, video_id, io_ok) ==
    io_ok /\ CountWhere(table, LAMBDA r : r.video_id = video_id) > 0

\* VideoDatabase.insert_video (database.py:236-256)
VideoDatabase_insert_video(table, row, io_ok) ==
    IF io_ok /\ StatementAccepted(VideoDatabaseVideoColumns, VideosColumns, VideosNotNull)
    THEN [ok |-> TRUE, table |-> InsertOrReplace(table, row, VideosUnique)]
    ELSE [ok |-> FALSE, table |-> table]

\* VideoDatabase.insert_subtitle (database.py:258-275)
VideoDatabase_insert_subtitle(table, row, io_ok) ==
    IF io_ok /\ StatementAccepted(VideoDatabaseSubtitleColumns, SubtitlesColumns, SubtitlesNotNull)
    THEN [ok |-> TRUE, table |-> InsertOrReplace(table, row, SubtitlesUnique)]
    ELSE [ok |-> FALSE, table |-> table]

(***************************************************************************)
(* DownloadManager (download_services.py:315-375).                         *)
(***************************************************************************)
\* what download_video_with_subtitles can come back with: download_video
\* returns a path or None, download_subtitles a dictionary over the languages
\* asked for, and _update_mapping_file swallows a write error; every callee
\* catches its own exceptions, so success is always True
DownloadResults ==
    [video_file : BOOLEAN, subtitle_files : SUBSET Languages, mapping_ok : BOOLEAN]

\* the order in which download_subtitles fills its dictionary
LanguageOrder == <<"fa", "en">>

PathOrNA(present) == IF present THEN "file" ELSE "N/A"

\* the line _update_mapping_file writes (download_services.py:365-369): the
\* locator and the video column; the two subtitle columns, which repeat what
\* download_subtitles returned, are not kept
MappingLine(url, dl) ==
    [url |-> url, video |-> PathOrNA(dl.video_file)]

\* open(self.mapping_file, 'a') and f.write(line)
\* (download_services.py:362-369): the line goes behind what the file holds
AppendLine_Rewrite(log, line) == <<line>>

AppendLine(log, line) == Append(log, line)

(***************************************************************************)
(* crawl_from_url's initial stats (scraping_crawler.py:48-56).             *)
(***************************************************************************)
InitStats ==
    [videos_found |-> 0, videos_processed |-> 0, videos_downloaded |-> 0,
     subtitles_extracted |-> 0, errors |-> 0]

(***************************************************************************)
(* find_farsi_videos                                                       *)
(***************************************************************************)
\* the while condition, youtube_scraper.py:346
LoopCondition_Inclusive(queue, accepted, m) == queue # <<>> /\ Len(accepted) <= m

LoopCondition(queue, accepted, m) == queue # <<>> /\ Len(accepted) < m

\* line 347: urls_to_visit.pop(0) takes the entry at index 0, the front
PopIndex_Last(queue) == Len(queue)

PopIndex(queue) == 1

\* what pop returns, and the list it leaves
Popped(queue) == queue[PopIndex(queue)]

AfterPop_Peek(queue) == queue

AfterPop(queue) ==
    [i \in 1..(Len(queue) - 1) |->
        IF i < PopIndex(queue) THEN queue[i] ELSE queue[i + 1]]

\* the test of line 349
AlreadyVisited_Never(url, visited) == FALSE

AlreadyVisited(url, visited) == url \in visited

\* lines 362-364: the related entries appended to the queue, in page order
Enqueue(queue, related, visited) ==
    LET keep == SelectSeq(related, LAMBDA r : r.is_farsi /\ r.url \notin visited)
    IN  queue \o [i \in 1..Len(keep) |-> keep[i].url]

\* line 367: urls_to_visit[:100]
Truncate_KeepLast(queue) ==
    SubSeq(queue, Len(queue) - Min(Len(queue), QueueLimit) + 1, Len(queue))

Truncate(queue) == SubSeq(queue, 1, Min(Len(queue), QueueLimit))

\* what the slice did to the list `expanded`, given the list it returned:
\* it kept all of it, or it kept exactly the first QueueLimit entries of a
\* longer list, in their order, or something else
SliceOutcome(expanded, sliced) ==
    IF Len(expanded) <= QueueLimit /\ sliced = expanded THEN "kept_all"
    ELSE IF Len(expanded) > QueueLimit /\ sliced = SubSeq(expanded, 1, QueueLimit)
    THEN "kept_first"
    ELSE "other"

\* where control goes after a failed fetch: scrape_video_page's own except
\* clause (lines 188-195) returns the error dictionary and the loop's except
\* clause (lines 369-371) continues, so the loop goes on either way
AfterFailedFetch_Abort == "aborted"

AfterFailedFetch == "loop"

\* the video_info of a page scraped without error, as far as the crawl and
\* the ingestion read it
VideoInfo(url, is_farsi) ==
    [video_id |-> extract_video_id(url), url |-> url, is_farsi |-> is_farsi]

\* line 358: farsi_videos.append(video_info)
Accept_AtFront(accepted, video_info) == <<video_info>> \o accepted

Accept(accepted, video_info) == Append(accepted, video_info)

InitFind ==
    /\ start_url \in StartUrls
    /\ max_videos \in 0..MaxVideosBound
    /\ farsi_videos = <<>>
    /\ visited_urls = {}
    /\ urls_to_visit = <<start_url>>
    /\ pc = "loop"
    /\ stats = InitStats
    /\ fetch_count = [u \in Urls |-> 0]
    /\ fetch_log = <<>>
    /\ slice_outcome = "none"
    /\ failed_fetches = 0
    /\ last = "none"

\* lines 347-350: the popped locator was visited before: continue
IterSkip ==
    /\ pc = "loop"
    /\ LoopCondition(urls_to_visit, farsi_videos, max_videos)
    /\ AlreadyVisited(Popped(urls_to_visit), visited_urls)
    /\ urls_to_visit' = AfterPop(urls_to_visit)
    /\ last' = "skip"
    /\ UNCHANGED <<start_url, max_videos, farsi_videos, visited_urls, pc, stats,
                   fetch_count, fetch_log, slice_outcome, failed_fetches>>
    /\ UNCHANGED <<storeVars, ingestVars, dbHistVars, poolVars, apiVars>>
    /\ UNCHANGED classifyVars
    /\ UNCHANGED multiVars
    /\ UNCHANGED sharedVars

\* lines 347-355, 369-371: scrape_video_page raises ValueError (line 162, no
\* video id in the locator); the except clause logs and continues
IterInvalid ==
    /\ pc = "loop"
    /\ LoopCondition(urls_to_visit, farsi_videos, max_videos)
    /\ LET current_url == Popped(urls_to_visit) IN
        /\ ~AlreadyVisited(current_url, visited_urls)
        /\ extract_video_id(current_url) = None
        /\ visited_urls' = visited_urls \cup {current_url}
        /\ fetch_count' = [fetch_count EXCEPT ![current_url] = @ + 1]
        /\ fetch_log' = Append(fetch_log, [url |-> current_url, is_farsi |-> FALSE])
        /\ urls_to_visit' = AfterPop(urls_to_visit)
    /\ UNCHANGED slice_outcome
    /\ failed_fetches' = failed_fetches + 1
    /\ last' = "raise"
    /\ pc' = AfterFailedFetch
    /\ UNCHANGED <<start_url, max_videos, farsi_videos, stats>>
    /\ UNCHANGED <<storeVars, ingestVars, dbHistVars, poolVars, apiVars>>
    /\ UNCHANGED classifyVars
    /\ UNCHANGED multiVars
    /\ UNCHANGED sharedVars

\* lines 347-367 when scrape_video_page catches an exception of the browser
\* (lines 188-195) and returns the error dictionary: no is_farsi key, no
\* related videos
IterError ==
    /\ pc = "loop"
    /\ LoopCondition(urls_to_visit, farsi_videos, max_videos)
    /\ LET current_url == Popped(urls_to_visit) IN
        /\ ~AlreadyVisited(current_url, visited_urls)
        /\ extract_video_id(current_url) # None
        /\ visited_urls' = visited_urls \cup {current_url}
        /\ fetch_count' = [fetch_count EXCEPT ![current_url] = @ + 1]
        /\ fetch_log' = Append(fetch_log, [url |-> current_url, is_farsi |-> FALSE])
        /\ LET expanded == Enqueue(AfterPop(urls_to_visit), <<>>, visited_urls') IN
            /\ urls_to_visit' = Truncate(expanded)
            /\ slice_outcome' = SliceOutcome(expanded, urls_to_visit')
    /\ failed_fetches' = failed_fetches + 1
    /\ last' = "error"
    /\ pc' = AfterFailedFetch
    /\ UNCHANGED <<start_url, max_videos, farsi_videos, stats>>
    /\ UNCHANGED <<storeVars, ingestVars, dbHistVars, poolVars, apiVars>>
    /\ UNCHANGED classifyVars
    /\ UNCHANGED multiVars
    /\ UNCHANGED sharedVars

\* lines 347-367 when the page is scraped: accept it if it is Farsi, then
\* expand the frontier and truncate it
IterOk ==
    /\ pc = "loop"
    /\ LoopCondition(urls_to_visit, farsi_videos, max_videos)
    /\ LET current_url == Popped(urls_to_visit) IN
        /\ ~AlreadyVisited(current_url, visited_urls)
        /\ extract_video_id(current_url) # None
        /\ visited_urls' = visited_urls \cup {current_url}
        /\ fetch_count' = [fetch_count EXCEPT ![current_url] = @ + 1]
        /\ \E is_farsi \in BOOLEAN, related \in RelatedLists :
            /\ farsi_videos' = IF is_farsi
                                 THEN Accept(farsi_videos, VideoInfo(current_url, is_farsi))
                                 ELSE farsi_videos
            /\ fetch_log' = Append(fetch_log, [url |-> current_url, is_farsi |-> is_farsi])
            /\ LET expanded == Enqueue(AfterPop(urls_to_visit), related, visited_urls') IN
                /\ urls_to_visit' = Truncate(expanded)
                /\ slice_outcome' = SliceOutcome(expanded, urls_to_visit')
    /\ last' = "ok"
    /\ UNCHANGED <<start_url, max_videos, pc, stats, failed_fetches>>
    /\ UNCHANGED <<storeVars, ingestVars, dbHistVars, poolVars, apiVars>>
    /\ UNCHANGED classifyVars
    /\ UNCHANGED multiVars
    /\ UNCHANGED sharedVars

\* the loop ends, find_farsi_videos returns, and crawl_from_url records
\* videos_found and returns at once when nothing was found
\* (youtube_scraper.py:373-374, scraping_crawler.py:60-65)
FindReturn ==
    /\ pc = "loop"
    /\ ~LoopCondition(urls_to_visit, farsi_videos, max_videos)
    /\ stats' = [stats EXCEPT !.videos_found = Len(farsi_videos)]
    /\ pc' = IF farsi_videos = <<>> THEN "returned" ELSE "process"
    /\ last' = "return"
    /\ UNCHANGED <<start_url, max_videos, farsi_videos, visited_urls, urls_to_visit,
                   fetch_count, fetch_log, slice_outcome, failed_fetches>>
    /\ UNCHANGED <<storeVars, ingestVars, dbHistVars, poolVars, apiVars>>
    /\ UNCHANGED classifyVars
    /\ UNCHANGED multiVars
    /\ UNCHANGED sharedVars

NoSnapshot ==
    [videos |-> EmptyBag, subtitles |-> EmptyBag, found |-> 0, failed |-> {}]

\* the parts of the state a specification does not exercise
StoreEmpty ==
    /\ videos = EmptyBag
    /\ subtitles = EmptyBag
    /\ mapping = <<>>

DbHistIdle ==
    /\ db_ops = 0
    /\ inserted = [id \in VideoIds |-> 0]
    /\ written = [t \in SubtitleKeys |-> <<>>]

IngestIdle ==
    /\ download_content = FALSE
    /\ idx = 0
    /\ run = 0
    /\ skipped = 0
    /\ captions_stored = 0
    /\ faults = 0
    /\ meta_failed = FALSE
    /\ snapshot = NoSnapshot
    /\ insert_called = {}
    /\ persist_failed = {}
    /\ download_called = {}
    /\ video_retrieved = {}

\* self.stats of FarsiVideoCrawler.__init__ (crawler.py:34-40)
InitCrawlerStats ==
    [videos_found |-> 0, videos_processed |-> 0, subtitles_extracted |-> 0,
     errors |-> 0, skipped_existing |-> 0]

PoolIdle ==
    /\ MAX_CONCURRENT_DOWNLOADS = 1
    /\ future_to_video = <<>>
    /\ task = <<>>
    /\ task_result = <<>>
    /\ collected = {}
    /\ crawler_stats = InitCrawlerStats
    /\ processed_videos = {}
    /\ failed_videos = {}
    /\ pool_pc = "idle"
    /\ fetch_failed = {}
    /\ stored_total = 0

\* info['farsi_score'] as _extract_video_info initialises it (0.0)
ZeroScore == <<0, 1>>

\* the default of detect_farsi's min_farsi_ratio (youtube_scraper.py:43): 0.1
DefaultRatio == <<1, 10>>

DetectIdle ==
    /\ text_arg = <<>>
    /\ min_farsi_ratio = DefaultRatio
    /\ detected_lang = "en"
    /\ detect_farsi_result = FALSE
    /\ detect_pc = "idle"

ScoreIdle ==
    /\ text_to_check = <<>>
    /\ farsi_score = ZeroScore
    /\ score_pc = "idle"

\* combined_stats as crawl_multiple_urls initialises it
\* (scraping_crawler.py:114-123), as far as the model follows it
InitCombinedStats == [videos_found |-> 0, urls_processed |-> 0]

MultiIdle ==
    /\ start_urls = <<>>
    /\ max_videos_per_url = 0
    /\ combined_stats = InitCombinedStats
    /\ url_i = 0
    /\ multi_pc = "idle"
    /\ found_of_url = <<>>

ClassifyIdle == ScoreIdle /\ DetectIdle

SharedIdle ==
    /\ inst_items = [i \in Instances |-> <<>>]
    /\ inst_idx = [i \in Instances |-> 0]
    /\ inst_pc = [i \in Instances |-> "idle"]
    /\ inst_download_content = FALSE
    /\ inst_inserted = [i \in Instances |-> {}]
    /\ inst_downloaded = [i \in Instances |-> {}]
    /\ inst_skipped = [i \in Instances |-> {}]

ApiIdle ==
    /\ YOUTUBE_API_KEY = "key"
    /\ api_pc = "idle"
    /\ db_opened = FALSE
    /\ session_status = "none"
    /\ api_requests = 0
    /\ search_queue = <<>>
    /\ api_videos = <<>>
    /\ api_max_videos = 0
    /\ extract_subtitles_arg = FALSE
    /\ search_queries = "None"
    /\ search_failed = 0

CrawlIdle ==
    /\ start_url = InvalidUrl
    /\ max_videos = 0
    /\ farsi_videos = <<>>
    /\ visited_urls = {}
    /\ urls_to_visit = <<>>
    /\ pc = "idle"
    /\ stats = InitStats
    /\ fetch_count = [u \in Urls |-> 0]
    /\ fetch_log = <<>>
    /\ slice_outcome = "none"
    /\ failed_fetches = 0
    /\ last = "none"

InitCrawl == InitFind /\ StoreEmpty /\ IngestIdle /\ DbHistIdle /\ PoolIdle /\ ApiIdle
        /\ ClassifyIdle
        /\ MultiIdle
        /\ SharedIdle

NextCrawl ==
    \/ IterSkip
    \/ IterInvalid
    \/ IterError
    \/ IterOk
    \/ FindReturn

SpecCrawl == InitCrawl /\ [][NextCrawl]_vars

\* the loop is sequential code: it keeps running until it returns
FairCrawl == SpecCrawl /\ WF_vars(NextCrawl)

(***************************************************************************)
(* crawl_from_url's processing loop and _process_video                     *)
(* (scraping_crawler.py:69-88, 148-229).                                   *)
(***************************************************************************)
\* the lists find_farsi_videos can hand over: distinct locators with an id,
\* only the first of which may be the start URL in its short form; by the
\* symmetry of the ids, a new id is the least id not used before
AcceptedLists ==
    {l \in SeqsUpTo(WatchUrls \cup (StartUrls \ {InvalidUrl}), MaxVideosBound) :
        /\ Len(l) >= 1
        /\ \A i, j \in 1..Len(l) : i # j => l[i] # l[j]
        /\ \A i \in 2..Len(l) : l[i] \in WatchUrls
        /\ \A i \in 1..Len(l) :
              extract_video_id(l[i]) <= 1 + Cardinality({extract_video_id(l[j]) : j \in 1..(i - 1)})}

\* what the environment decides while one item is processed: whether the
\* SELECT of video_exists and the INSERTs go through, what the download
\* brings, and which subtitle files cannot be read back
ProcessEnvs ==
    [exists_ok : BOOLEAN, io_ok : BOOLEAN, dl : DownloadResults,
     unreadable : SUBSET Languages]

QuietEnv ==
    [exists_ok |-> TRUE, io_ok |-> TRUE,
     dl |-> [video_file |-> FALSE, subtitle_files |-> {}, mapping_ok |-> TRUE],
     unreadable |-> {}]

\* the decisions that make a difference for this item: none but exists_ok
\* when the row is there, none about the download when nothing is downloaded
EnvsFor(video_info, download) ==
    IF CountWhere(videos, LAMBDA r : r.video_id = video_info.video_id) > 0
    THEN {[QuietEnv EXCEPT !.exists_ok = TRUE]} \cup
         {e \in ProcessEnvs : /\ ~e.exists_ok
                              /\ e.unreadable \subseteq e.dl.subtitle_files
                              /\ (~download => e.dl = QuietEnv.dl)}
    ELSE {e \in ProcessEnvs : /\ e.exists_ok
                              /\ e.unreadable \subseteq e.dl.subtitle_files
                              /\ (~download => e.dl = QuietEnv.dl)}

\* the faults an environment injects, given that the download runs or not
FaultsOf(e, download) ==
    (IF e.exists_ok THEN 0 ELSE 1) + (IF e.io_ok THEN 0 ELSE 1)
        + (IF download /\ ~e.dl.mapping_ok THEN 1 ELSE 0)
        + (IF download THEN Cardinality(e.unreadable) ELSE 0)

\* lines 198-216: the subtitle files of the download, in dictionary order;
\* a file that cannot be read is logged and left out
RECURSIVE StoreSubtitles(_, _, _, _, _)
StoreSubtitles(table, video_id, langs, env, acc) ==
    IF langs = <<>>
    THEN [table |-> table, count |-> acc.count, stored |-> acc.stored]
    ELSE LET lang == Head(langs) IN
         IF lang \notin env.dl.subtitle_files \/ lang \in env.unreadable
         THEN StoreSubtitles(table, video_id, Tail(langs), env, acc)
         ELSE LET row == [video_id |-> video_id, language |-> lang,
                          subtitle_type |-> "NULL", content |-> "text_a"]
                  ins == VideoDatabase_insert_subtitle(table, row, env.io_ok)
              IN  StoreSubtitles(ins.table, video_id, Tail(langs), env,
                                 [count |-> acc.count + 1,
                                  stored |-> acc.stored + (IF ins.ok THEN 1 ELSE 0)])

\* the dictionary of the item when _process_video has returned: the method
\* only reads it, with video_info.get (lines 151, 159, 173-182, 189)
ItemAfterProcessing_Normalised(video_info) ==
    [video_info EXCEPT !.url = <<"watch", video_info.video_id>>]

ItemAfterProcessing(video_info) == video_info

\* line 186: `if download_content:`
ContentWanted_Always(download) == TRUE

ContentWanted(download) == download

\* line 194: download_result.get('success', False); the key is set to True
\* at download_services.py:350 once the three calls have returned, whatever
\* download_video returned, and every callee catches its own exceptions
DownloadSucceeded_IfVideoFile(dl) == dl.video_file

DownloadSucceeded(dl) == TRUE

\* _process_video: the result dictionary and the store it leaves
ProcessVideo(video_info, download, env) ==
    LET video_id == video_info.video_id
        base == [success |-> FALSE, downloaded |-> FALSE, subtitles_count |-> 0,
                 videos |-> videos, subtitles |-> subtitles, mapping |-> mapping,
                 skipped |-> 0, stored |-> 0, meta_failed |-> FALSE,
                 insert_called |-> FALSE, insert_ok |-> FALSE,
                 download_called |-> FALSE, video_retrieved |-> FALSE]
    IN  IF video_id = None
        THEN base
        ELSE IF VideoDatabase_video_exists(videos, video_id, env.exists_ok)
        THEN [base EXCEPT !.success = TRUE, !.skipped = 1]
        ELSE LET ins == VideoDatabase_insert_video(
                            videos, VideoRow(video_id, video_info.url), env.io_ok)
                 after == [base EXCEPT !.success = TRUE, !.videos = ins.table,
                                       !.meta_failed = ~env.exists_ok \/ ~ins.ok,
                                       !.insert_called = TRUE,
                                       !.insert_ok = ins.ok]
             IN  IF ~ContentWanted(download)
                 THEN after
                 ELSE LET called ==
                              [after EXCEPT
                                  !.download_called = TRUE,
                                  !.video_retrieved = env.dl.video_file,
                                  !.mapping =
                                      IF env.dl.mapping_ok
                                      THEN AppendLine(mapping,
                                                      MappingLine(video_info.url, env.dl))
                                      ELSE mapping]
                          subs == StoreSubtitles(subtitles, video_id, LanguageOrder, env,
                                                 [count |-> 0, stored |-> 0])
                      IN  IF ~DownloadSucceeded(env.dl)
                          THEN called
                          ELSE [called EXCEPT
                                   !.downloaded = TRUE,
                                   !.subtitles = subs.table,
                                   !.subtitles_count = subs.count,
                                   !.stored = subs.stored]

\* lines 75-81: the stats after one result
CountResult_SkipUncounted(st, result) ==
    IF result.success /\ result.skipped = 0
    THEN [st EXCEPT !.videos_processed = @ + 1,
                    !.videos_downloaded = @ + (IF result.downloaded THEN 1 ELSE 0),
                    !.subtitles_extracted = @ + result.subtitles_count]
    ELSE IF result.success THEN st
    ELSE [st EXCEPT !.errors = @ + 1]

CountResult(st, result) ==
    IF result.success
    THEN [st EXCEPT !.videos_processed = @ + 1,
                    !.videos_downloaded = @ + (IF result.downloaded THEN 1 ELSE 0),
                    !.subtitles_extracted = @ + result.subtitles_count]
    ELSE [st EXCEPT !.errors = @ + 1]

InitIngest ==
    /\ \E l \in AcceptedLists :
          farsi_videos = [i \in 1..Len(l) |-> VideoInfo(l[i], TRUE)]
    /\ start_url = farsi_videos[1].url
    /\ max_videos = MaxVideosBound
    /\ visited_urls = {}
    /\ urls_to_visit = <<>>
    /\ pc = "process"
    /\ stats = [InitStats EXCEPT !.videos_found = Len(farsi_videos)]
    /\ fetch_count = [u \in Urls |-> 0]
    /\ fetch_log = <<>>
    /\ slice_outcome = "none"
    /\ failed_fetches = 0
    /\ last = "return"
    /\ StoreEmpty
    /\ DbHistIdle
    /\ PoolIdle
    /\ ApiIdle
    /\ ClassifyIdle
    /\ MultiIdle
    /\ SharedIdle
    /\ download_content \in BOOLEAN
    /\ idx = 1
    /\ run = 1
    /\ skipped = 0
    /\ captions_stored = 0
    /\ faults = 0
    /\ meta_failed = FALSE
    /\ snapshot = NoSnapshot
    /\ insert_called = {}
    /\ persist_failed = {}
    /\ download_called = {}
    /\ video_retrieved = {}

\* one iteration of the for loop of crawl_from_url
ProcessItem ==
    /\ pc = "process"
    /\ idx <= Len(farsi_videos)
    /\ \E env \in EnvsFor(farsi_videos[idx], download_content) :
        LET result == ProcessVideo(farsi_videos[idx], download_content, env) IN
        /\ faults + FaultsOf(env, download_content) <= MaxFaults
        /\ faults' = faults + FaultsOf(env, download_content)
        /\ videos' = result.videos
        /\ subtitles' = result.subtitles
        /\ mapping' = result.mapping
        /\ stats' = CountResult(stats, result)
        /\ skipped' = skipped + result.skipped
        /\ captions_stored' = captions_stored + result.stored
        /\ meta_failed' = (meta_failed \/ result.meta_failed)
        /\ insert_called' = IF result.insert_called
                             THEN insert_called \cup {idx} ELSE insert_called
        /\ persist_failed' = IF result.insert_called /\ ~result.insert_ok
                              THEN persist_failed \cup {idx} ELSE persist_failed
        /\ download_called' = IF result.download_called
                               THEN download_called \cup {idx} ELSE download_called
        /\ video_retrieved' = IF result.video_retrieved
                               THEN video_retrieved \cup {idx} ELSE video_retrieved
    /\ farsi_videos' = [farsi_videos EXCEPT ![idx] = ItemAfterProcessing(@)]
    /\ idx' = idx + 1
    /\ UNCHANGED <<start_url, max_videos, visited_urls, urls_to_visit,
                   pc, fetch_count, fetch_log, slice_outcome, failed_fetches, last,
                   download_content, run,
                   snapshot, dbHistVars, poolVars, apiVars>>
    /\ UNCHANGED classifyVars
    /\ UNCHANGED multiVars
    /\ UNCHANGED sharedVars

\* the loop is over: crawl_from_url returns its stats (lines 90-99)
ProcessReturn ==
    /\ pc = "process"
    /\ idx > Len(farsi_videos)
    /\ pc' = "done"
    /\ snapshot' = IF run = 1
                   THEN [videos |-> videos, subtitles |-> subtitles,
                         found |-> stats.videos_found, failed |-> persist_failed]
                   ELSE snapshot
    /\ UNCHANGED <<start_url, max_videos, farsi_videos, visited_urls, urls_to_visit,
                   stats, fetch_count, fetch_log, slice_outcome, failed_fetches, last, storeVars,
                   download_content, idx, run, skipped, captions_stored, faults,
                   meta_failed, insert_called, persist_failed, download_called,
                   video_retrieved, dbHistVars,
                   poolVars, apiVars>>
    /\ UNCHANGED classifyVars
    /\ UNCHANGED multiVars
    /\ UNCHANGED sharedVars

\* crawl_from_url is called again and the discovery hands over the same items
Rerun ==
    /\ pc = "done"
    /\ run = 1
    /\ run' = 2
    /\ pc' = "process"
    /\ idx' = 1
    /\ stats' = [InitStats EXCEPT !.videos_found = Len(farsi_videos)]
    /\ skipped' = 0
    /\ captions_stored' = 0
    /\ insert_called' = {}
    /\ persist_failed' = {}
    /\ download_called' = {}
    /\ video_retrieved' = {}
    /\ UNCHANGED <<start_url, max_videos, farsi_videos, visited_urls, urls_to_visit,
                   fetch_count, fetch_log, slice_outcome, failed_fetches, last, storeVars,
                   download_content,
                   faults, meta_failed, snapshot, dbHistVars, poolVars, apiVars>>
    /\ UNCHANGED classifyVars
    /\ UNCHANGED multiVars
    /\ UNCHANGED sharedVars

NextIngest ==
    \/ ProcessItem
    \/ ProcessReturn
    \/ Rerun

SpecIngest == InitIngest /\ [][NextIngest]_vars

C10_CountsOnlyStoredCaptions == stats.subtitles_extracted = captions_stored

\* the locators whose processing has reported success, in this run or in the
\* run before: _process_video reports success for every item it is given
SucceededUrls ==
    {farsi_videos[i].url :
        i \in {j \in DOMAIN farsi_videos : run = 2 \/ (run = 1 /\ j < idx)}}

\* number of records the mapping log holds for a locator
MappingRecords(url) == Cardinality({i \in DOMAIN mapping : mapping[i].url = url})

\* C15: every item whose processing reported success has exactly one mapping
\* record for its locator, and no locator has more than one record, over any
\* sequence of runs.
C15_OneRecordPerSuccess ==
    /\ \A url \in SucceededUrls : MappingRecords(url) = 1
    /\ \A url \in Urls : MappingRecords(url) <= 1


\* the items of this run handled so far
Handled == IF pc = "done" THEN Len(farsi_videos) ELSE idx - 1

\* C24: a storage write failure is counted and recoverable: when persisting
\* an item's metadata fails, the errors counter is incremented and the item
\* is not reported as successfully processed, and a later run over the same
\* item does not skip it as already present but attempts persistence again.
C24_PersistFailureCountedAndRetried ==
    /\ pc \in {"process", "done"}
        => /\ stats.errors >= Cardinality(persist_failed)
           /\ stats.videos_processed <= Handled - Cardinality(persist_failed)
    /\ (pc = "done" /\ run = 2)
        => \A i \in snapshot.failed :
              ~DatabaseManager_video_exists(snapshot.videos, farsi_videos[i].video_id)
                  => \E j \in insert_called :
                        farsi_videos[j].video_id = farsi_videos[i].video_id

\* the for loop handles the item at idx in this step
ProcessesItem == pc = "process" /\ idx \in DOMAIN farsi_videos /\ idx' = idx + 1

\* C32: processing an item that is already present in the store is a no-op
\* success: it is counted as processed, the store rows, the mapping log and
\* the downloaded and subtitle counters stay as they are, and no download is
\* started for it.
C32_PresentItemIsNoOp ==
    [][(ProcessesItem /\ DatabaseManager_video_exists(videos, farsi_videos[idx].video_id))
          => /\ stats'.videos_processed = stats.videos_processed + 1
             /\ stats'.errors = stats.errors
             /\ videos' = videos
             /\ subtitles' = subtitles
             /\ mapping' = mapping
             /\ stats'.videos_downloaded = stats.videos_downloaded
             /\ stats'.subtitles_extracted = stats.subtitles_extracted]_vars

\* C33: with download_content false the pipeline only persists metadata: no
\* download call is made, no caption row and no mapping record is written,
\* and videos_downloaded and subtitles_extracted stay 0; with download_content
\* true the download of an item starts only after insert_video was called
\* for that item.
C33_DownloadOnlyIfWantedAfterMetadata ==
    /\ ~download_content
        => /\ download_called = {}
           /\ subtitles = EmptyBag
           /\ mapping = <<>>
           /\ stats.videos_downloaded = 0
           /\ stats.subtitles_extracted = 0
    /\ download_called \subseteq insert_called

\* a run without download has stored the metadata of every item it was given
C33_Witness ==
    /\ ~download_content
    /\ pc = "done"
    /\ stats.videos_processed = MaxVideosBound
    /\ BagCardinality(videos) = MaxVideosBound

\* C40: videos_downloaded counts only items whose video file was retrieved:
\* it is never incremented for an item whose download_video call returned
\* nothing (mapping record N/A).
C40_DownloadedCountsVideoFiles == stats.videos_downloaded <= Cardinality(video_retrieved)

\* C38: crawl_from_url accounts for every found item exactly once: at every
\* point of the processing loop videos_processed + errors <= videos_found,
\* when the loop has finished the two sides are equal, and videos_downloaded
\* <= videos_processed.
C38_EveryItemAccountedOnce ==
    /\ stats.videos_processed + stats.errors = Handled
    /\ stats.videos_processed + stats.errors <= stats.videos_found
    /\ pc = "done" => stats.videos_processed + stats.errors = stats.videos_found
    /\ stats.videos_downloaded <= stats.videos_processed

\* a second run has finished: every item was skipped and counted, none of
\* them as downloaded
C38_Witness ==
    /\ pc = "done"
    /\ run = 2
    /\ download_content
    /\ stats.videos_found = MaxVideosBound
    /\ stats.videos_processed = MaxVideosBound
    /\ stats.videos_downloaded = 0

ApiPayloads == {<<"api", n>> : n \in 1..NumPayloads}

DbInsertVideo ==
    /\ db_ops < MaxDbOps
    /\ \E id \in VideoIds, payload \in ApiPayloads, io_ok \in BOOLEAN :
        LET res == DatabaseManager_insert_video(videos, VideoRow(id, payload), io_ok)
        IN  /\ videos' = res.table
            /\ inserted' = IF res.ok THEN [inserted EXCEPT ![id] = @ + 1] ELSE inserted
    /\ db_ops' = db_ops + 1
    /\ UNCHANGED <<subtitles, mapping, written, crawlVars, ingestVars, poolVars, apiVars>>
    /\ UNCHANGED classifyVars
    /\ UNCHANGED multiVars
    /\ UNCHANGED sharedVars

DbInsertSubtitle ==
    /\ db_ops < MaxDbOps
    /\ \E key \in SubtitleKeys, content \in Contents, io_ok \in BOOLEAN :
        LET res == DatabaseManager_insert_subtitle(subtitles, SubtitleRow(key, content), io_ok)
        IN  /\ subtitles' = res.table
            /\ written' = IF res.ok THEN [written EXCEPT ![key] = Append(@, content)]
                                    ELSE written
    /\ db_ops' = db_ops + 1
    /\ UNCHANGED <<videos, mapping, inserted, crawlVars, ingestVars, poolVars, apiVars>>
    /\ UNCHANGED classifyVars
    /\ UNCHANGED multiVars
    /\ UNCHANGED sharedVars

InitDb == CrawlIdle /\ StoreEmpty /\ IngestIdle /\ DbHistIdle /\ PoolIdle /\ ApiIdle
        /\ ClassifyIdle
        /\ MultiIdle
        /\ SharedIdle

NextDb ==
    \/ DbInsertVideo
    \/ DbInsertSubtitle

SpecDb == InitDb /\ [][NextDb]_vars

\* C9: after any sequence of insert_subtitle calls the table holds at most one
\* row per (video_id, language, subtitle_type), and that row carries the
\* content of the latest insert for the key that returned True.
C9_OneRowPerKeyLatestContent ==
    \A key \in SubtitleKeys :
        LET rows == RowsWhere(subtitles, LAMBDA r : KeyOf(r) = key)
        IN  /\ CountWhere(subtitles, LAMBDA r : KeyOf(r) = key) <= 1
            /\ IF written[key] = <<>>
               THEN rows = {}
               ELSE rows = {SubtitleRow(key, written[key][Len(written[key])])}

\* a key was written twice with different contents and one row is left
C9_Witness ==
    \E key \in SubtitleKeys :
        /\ Len(written[key]) = 2
        /\ written[key][1] # written[key][2]
        /\ BagCardinality(subtitles) = 1

(***************************************************************************)
(* Properties of the crawl.                                                *)
(***************************************************************************)
Returned == pc \in {"returned", "process"}

\* number of scrape_video_page calls made for locators of content id `id`
FetchesOfId(id) ==
    LET us == {u \in Urls : extract_video_id(u) = id}
        Sum[S \in SUBSET us] ==
            IF S = {} THEN 0
            ELSE LET u == CHOOSE x \in S : TRUE IN fetch_count[u] + Sum[S \ {u}]
    IN  Sum[us]

\* C1: in every state of a find_farsi_videos run with max_videos = m >= 0 the
\* number of accepted items is at most m.
C1_AcceptedAtMostMax == Len(farsi_videos) <= max_videos

\* the cap is reached inside the loop while the frontier still has entries
C1_Witness ==
    /\ pc = "loop"
    /\ max_videos > 0
    /\ Len(farsi_videos) = max_videos
    /\ urls_to_visit # <<>>

\* C2: within one run no locator is passed to scrape_video_page more than
\* once, whatever the link graph (cycles, self-links, repeated links).
C2_NoLocatorFetchedTwice == \A u \in Urls : fetch_count[u] <= 1

\* a locator that was fetched before is popped again and skipped
C2_Witness ==
    /\ last = "skip"
    /\ \E u \in Urls : fetch_count[u] = 1

\* C3: within one run the same content id is never fetched twice, also when
\* two different locators resolve to the same content id.
C3_NoIdFetchedTwice == \A id \in VideoIds : FetchesOfId(id) <= 1

\* C4: at every step of the loop the visited set and the frontier queue are
\* disjoint.
C4_VisitedQueueDisjoint == visited_urls \cap Range(urls_to_visit) = {}

\* C5: a fetch failure never aborts the crawl: every locator queued at the
\* moment of a failed fetch is popped and processed later, unless the cap on
\* accepted items is reached first.
C5_FailureDoesNotAbort ==
    \A u \in Urls :
        [](((last \in {"raise", "error"}) /\ u \in Range(urls_to_visit))
              => <>(u \in visited_urls \/ Len(farsi_videos) >= max_videos))

\* a page is fetched and scraped after an earlier fetch of the run failed
C5_Witness ==
    /\ failed_fetches >= 1
    /\ last = "ok"

\* C6: every fetch failure increments the run's errors counter by one: when
\* the discovery has returned, errors equals the number of failed fetches.
C6_ErrorsCountFailures == Returned => stats.errors = failed_fetches

\* C7: once the accepted count has reached max_videos no fetch is made and no
\* error is recorded, and a crawl that stops with a non-empty frontier stops
\* with exactly max_videos accepted items.
C7_GracefulCap ==
    [][/\ (Len(farsi_videos) >= max_videos
              => fetch_count' = fetch_count /\ stats'.errors = stats.errors)
       /\ (pc' \in {"returned", "process"} /\ urls_to_visit' # <<>>
              => Len(farsi_videos') = max_videos)]_vars

\* the crawl has returned MaxVideosBound items and left a non-empty frontier
C7_Witness ==
    /\ pc = "process"
    /\ max_videos = MaxVideosBound
    /\ Len(farsi_videos) = max_videos
    /\ urls_to_visit # <<>>
    /\ stats.errors = 0

\* C18: after any sequence of insert_video calls, video_exists(id) is true
\* exactly for the ids of the inserts that returned True, and get_video_count
\* is the number of different ids inserted.
C18_ExistsAndCountMatchInserts ==
    /\ \A id \in VideoIds :
          DatabaseManager_video_exists(videos, id) <=> inserted[id] > 0
    /\ get_video_count(videos) = Cardinality({id \in VideoIds : inserted[id] > 0})

\* an id has been inserted twice and another id once
C18_Witness ==
    /\ \E id \in VideoIds : inserted[id] >= 2
    /\ get_video_count(videos) = 2

\* C19: get_videos_without_subtitles(L) returns exactly the stored video ids
\* that have no caption row in language L.
C19_WithoutSubtitlesExact ==
    \A language \in Languages :
        get_videos_without_subtitles(videos, subtitles, language)
            = {id \in VideoIds :
                  /\ CountWhere(videos, LAMBDA r : r.video_id = id) > 0
                  /\ CountWhere(subtitles,
                                LAMBDA r : r.video_id = id /\ r.language = language) = 0}

\* a stored video has a caption in one language and none in the other: it
\* was in the result for the first language before, and is not any more
C19_Witness ==
    \E id \in VideoIds :
        /\ id \notin get_videos_without_subtitles(videos, subtitles, "fa")
        /\ id \in get_videos_without_subtitles(videos, subtitles, "en")
        /\ inserted[id] > 0
        /\ \E key \in SubtitleKeys :
              key.video_id = id /\ key.language = "fa" /\ written[key] # <<>>

(***************************************************************************)
(* The thread pool of the API crawler: _process_videos_with_subtitles and  *)
(* _process_single_video (crawler.py:195-261).                             *)
(***************************************************************************)
\* the result of a future: not set yet, None, or the dictionary
\* {'subtitles_extracted': n}
Unset == [returned |-> "unset", subtitles_extracted |-> 0]

ReturnedNone == [returned |-> "None", subtitles_extracted |-> 0]

ReturnedDict(n) == [returned |-> "dict", subtitles_extracted |-> n]

\* `if result:` (crawler.py:212): None is false, a non-empty dictionary true
Truthy(result) == result.returned = "dict"

\* what happens to one task: extract_info raises (swallowed by
\* extract_subtitles, lines 89-92, which then returns {}), the manual tracks
\* the video has, whether sqlite takes the INSERTs, and whether
\* _process_single_video itself raises before it stores anything
TaskEnvs ==
    {e \in [fetch_ok : BOOLEAN, langs : SUBSET Languages, io_ok : BOOLEAN,
            raises : BOOLEAN] :
        /\ (~e.fetch_ok => e.langs = {})
        /\ (e.raises => e.fetch_ok /\ e.io_ok)}

\* SubtitleExtractor.extract_subtitles: the tracks it hands back
extract_subtitles(env) == IF env.fetch_ok THEN env.langs ELSE {}

\* crawler.py:245-255: store the tracks in order, count the True returns
RECURSIVE StoreTracks(_, _, _, _, _)
StoreTracks(table, video_id, langs, env, subtitles_stored) ==
    IF langs = <<>>
    THEN [table |-> table, subtitles_stored |-> subtitles_stored]
    ELSE IF Head(langs) \notin extract_subtitles(env)
    THEN StoreTracks(table, video_id, Tail(langs), env, subtitles_stored)
    ELSE LET row == [video_id |-> video_id, language |-> Head(langs),
                     subtitle_type |-> "manual", content |-> "text_a"]
             ins == DatabaseManager_insert_subtitle(table, row, env.io_ok)
         IN  StoreTracks(ins.table, video_id, Tail(langs), env,
                         subtitles_stored + (IF ins.ok THEN 1 ELSE 0))

\* _process_single_video (crawler.py:230-261)
process_single_video(table, video_id, env) ==
    IF env.raises
    THEN [result |-> ReturnedNone, table |-> table]
    ELSE IF extract_subtitles(env) = {}
    THEN [result |-> ReturnedDict(0), table |-> table]
    ELSE LET st == StoreTracks(table, video_id, LanguageOrder, env, 0)
         IN  [result |-> ReturnedDict(st.subtitles_stored), table |-> st.table]

\* number of tasks a worker thread is executing
Running(t) == Cardinality({i \in DOMAIN t : t[i] = "running"})

\* ThreadPoolExecutor(max_workers=K): a queued task starts only on one of
\* the at most K worker threads (crawler.py:198)
WorkerAvailable_Always(running, k) == TRUE

WorkerAvailable(running, k) == running < k

\* a task that ends leaves the other futures as they are
FinishTask_Cancelling(t, i, result) ==
    [j \in DOMAIN t |->
        IF j = i THEN "done"
        ELSE IF ~Truthy(result) /\ t[j] = "pending" THEN "cancelled" ELSE t[j]]

FinishTask(t, i, result) == [t EXCEPT ![i] = "done"]

\* crawler.py:211-220: the counters after one collected future
CountFuture_Lost(st, result) == st

CountFuture(st, result) ==
    IF Truthy(result)
    THEN [st EXCEPT !.videos_processed = @ + 1,
                    !.subtitles_extracted =
                        @ + (IF result.subtitles_extracted > 0
                             THEN result.subtitles_extracted ELSE 0)]
    ELSE [st EXCEPT !.errors = @ + 1]

\* entry of _process_videos_with_subtitles: _search_videos has stored and
\* handed over n different videos, every future is queued
InitPool ==
    /\ CrawlIdle
    /\ IngestIdle
    /\ DbHistIdle
    /\ ApiIdle
    /\ ClassifyIdle
    /\ MultiIdle
    /\ SharedIdle
    /\ MAX_CONCURRENT_DOWNLOADS \in 1..MaxWorkers
    /\ \E n \in 1..MaxSubmitted : future_to_video = [i \in 1..n |-> i]
    /\ videos = SetToBag({VideoRow(future_to_video[i], <<"api", 1>>) :
                             i \in DOMAIN future_to_video})
    /\ subtitles = EmptyBag
    /\ mapping = <<>>
    /\ task = [i \in DOMAIN future_to_video |-> "pending"]
    /\ task_result = [i \in DOMAIN future_to_video |-> Unset]
    /\ collected = {}
    /\ crawler_stats = [InitCrawlerStats EXCEPT !.videos_found = Len(future_to_video)]
    /\ processed_videos = {}
    /\ failed_videos = {}
    /\ pool_pc = "pool"
    /\ fetch_failed = {}
    /\ stored_total = 0

\* a worker thread takes the oldest queued task
TaskStart ==
    /\ pool_pc = "pool"
    /\ \E i \in DOMAIN task :
        /\ task[i] = "pending"
        /\ \A j \in DOMAIN task : j < i => task[j] # "pending"
        /\ WorkerAvailable(Running(task), MAX_CONCURRENT_DOWNLOADS)
        /\ task' = [task EXCEPT ![i] = "running"]
    /\ UNCHANGED <<MAX_CONCURRENT_DOWNLOADS, future_to_video, task_result, collected,
                   crawler_stats, processed_videos, failed_videos, pool_pc,
                   fetch_failed, stored_total>>
    /\ UNCHANGED <<crawlVars, storeVars, ingestVars, dbHistVars, apiVars>>
    /\ UNCHANGED classifyVars
    /\ UNCHANGED multiVars
    /\ UNCHANGED sharedVars

\* a worker thread runs _process_single_video to its end
TaskFinish ==
    /\ pool_pc = "pool"
    /\ \E i \in DOMAIN task, env \in TaskEnvs :
        LET done == process_single_video(subtitles, future_to_video[i], env) IN
        /\ task[i] = "running"
        /\ task' = FinishTask(task, i, done.result)
        /\ task_result' = [task_result EXCEPT ![i] = done.result]
        /\ subtitles' = done.table
        /\ fetch_failed' = IF env.fetch_ok THEN fetch_failed ELSE fetch_failed \cup {i}
        /\ stored_total' = stored_total + done.result.subtitles_extracted
    /\ UNCHANGED <<MAX_CONCURRENT_DOWNLOADS, future_to_video, collected, crawler_stats,
                   processed_videos, failed_videos, pool_pc>>
    /\ UNCHANGED <<crawlVars, videos, mapping, ingestVars, dbHistVars, apiVars>>
    /\ UNCHANGED classifyVars
    /\ UNCHANGED multiVars
    /\ UNCHANGED sharedVars

\* one iteration of the as_completed loop in the calling thread
\* (crawler.py:207-228)
Collect ==
    /\ pool_pc = "pool"
    /\ \E i \in DOMAIN task :
        /\ task[i] = "done"
        /\ i \notin collected
        /\ collected' = collected \cup {i}
        /\ crawler_stats' = CountFuture(crawler_stats, task_result[i])
        /\ failed_videos' = IF Truthy(task_result[i]) THEN failed_videos
                            ELSE failed_videos \cup {future_to_video[i]}
        /\ processed_videos' = processed_videos \cup {future_to_video[i]}
    /\ UNCHANGED <<MAX_CONCURRENT_DOWNLOADS, future_to_video, task, task_result,
                   pool_pc, fetch_failed, stored_total>>
    /\ UNCHANGED <<crawlVars, storeVars, ingestVars, dbHistVars, apiVars>>
    /\ UNCHANGED classifyVars
    /\ UNCHANGED multiVars
    /\ UNCHANGED sharedVars

\* every future has been handled: the with blocks are left
PoolReturn ==
    /\ pool_pc = "pool"
    /\ collected = DOMAIN task
    /\ pool_pc' = "returned"
    /\ UNCHANGED <<MAX_CONCURRENT_DOWNLOADS, future_to_video, task, task_result,
                   collected, crawler_stats, processed_videos, failed_videos,
                   fetch_failed, stored_total>>
    /\ UNCHANGED <<crawlVars, storeVars, ingestVars, dbHistVars, apiVars>>
    /\ UNCHANGED classifyVars
    /\ UNCHANGED multiVars
    /\ UNCHANGED sharedVars

NextPool ==
    \/ TaskStart
    \/ TaskFinish
    \/ Collect
    \/ PoolReturn

SpecPool == InitPool /\ [][NextPool]_vars

\* worker threads and the calling thread keep running
FairPool == SpecPool /\ WF_vars(NextPool)

\* the tasks that failed: _process_single_video returned None, or the
\* subtitle fetch hit an exception
FailedTasks ==
    {i \in DOMAIN task : task_result[i] = ReturnedNone \/ i \in fetch_failed}

\* C11: a failing retrieval task cancels neither its siblings nor the run:
\* once a task has failed, eventually every submitted task has run to its end,
\* every future has been handled and _process_videos_with_subtitles returns.
C11_FailureDoesNotCancel ==
    [](FailedTasks # {}
          => <>(/\ pool_pc = "returned"
                /\ \A i \in DOMAIN task :
                      /\ task[i] = "done"
                      /\ i \in collected
                      /\ future_to_video[i] \in processed_videos))

\* with one worker thread, a later task stored a track after an earlier task
\* had returned None, and the pool returned
C11_Witness ==
    /\ pool_pc = "returned"
    /\ MAX_CONCURRENT_DOWNLOADS = 1
    /\ \E i, j \in DOMAIN task :
          /\ i < j
          /\ task_result[i] = ReturnedNone
          /\ task_result[j].subtitles_extracted > 0

\* C12: every item whose subtitle fetch failed has incremented errors and is
\* not counted in videos_processed.
C12_FetchFailureCounted ==
    pool_pc = "returned"
        => /\ crawler_stats.errors >= Cardinality(fetch_failed)
           /\ crawler_stats.videos_processed
                  <= Len(future_to_video) - Cardinality(fetch_failed)

\* C13: at most MAX_CONCURRENT_DOWNLOADS tasks execute at the same time.
C13_AtMostKRunning == Running(task) <= MAX_CONCURRENT_DOWNLOADS

\* every worker thread is busy while a task is still queued
C13_Witness ==
    /\ Running(task) = MAX_CONCURRENT_DOWNLOADS
    /\ \E i \in DOMAIN task : task[i] = "pending"

\* C14: the aggregation loses and duplicates nothing: every handled future
\* has added one to videos_processed or to errors, and when the pool returns
\* the n submitted videos are all counted, subtitles_extracted is the sum of
\* the stored counts, every submitted id is in processed_videos and
\* failed_videos is a subset of processed_videos.
C14_AggregationExact ==
    /\ crawler_stats.videos_processed + crawler_stats.errors = Cardinality(collected)
    /\ failed_videos \subseteq processed_videos
    /\ pool_pc = "returned"
          => /\ crawler_stats.videos_processed + crawler_stats.errors
                    = Len(future_to_video)
             /\ crawler_stats.subtitles_extracted = stored_total
             /\ \A i \in DOMAIN future_to_video : future_to_video[i] \in processed_videos

\* two tasks ran side by side; one failed, the other stored tracks
C14_Witness ==
    /\ pool_pc = "returned"
    /\ MAX_CONCURRENT_DOWNLOADS >= 2
    /\ Len(future_to_video) >= 2
    /\ crawler_stats.errors >= 1
    /\ crawler_stats.subtitles_extracted >= 1

(***************************************************************************)
(* The API crawler: FarsiVideoCrawler.__init__ and crawl_farsi_videos      *)
(* (crawler.py:19-164).                                                    *)
(***************************************************************************)
\* Config.validate (config.py:51-56): True, or ValueError when the key is empty
validate_Lenient(key) == TRUE

validate(key) == key # ""

\* the results the platform can yield for one crawl: ids, possibly repeated
\* across queries; a new id is the least id not used before
SearchResultLists ==
    {l \in SeqsUpTo(VideoIds, MaxSubmitted) :
        \A i \in 1..Len(l) : l[i] <= 1 + Cardinality({l[j] : j \in 1..(i - 1)})}

InitApi ==
    /\ CrawlIdle
    /\ StoreEmpty
    /\ IngestIdle
    /\ DbHistIdle
    /\ ClassifyIdle
    /\ MultiIdle
    /\ SharedIdle
    /\ YOUTUBE_API_KEY \in {"", "key"}
    /\ api_pc = "new"
    /\ db_opened = FALSE
    /\ session_status = "none"
    /\ api_requests = 0
    /\ search_queue \in SearchResultLists
    /\ api_videos = <<>>
    /\ api_max_videos \in 0..MaxSubmitted
    /\ extract_subtitles_arg \in BOOLEAN
    /\ search_queries \in {"None", "custom"}
    /\ search_failed = 0
    /\ MAX_CONCURRENT_DOWNLOADS \in 1..MaxWorkers
    /\ future_to_video = <<>>
    /\ task = <<>>
    /\ task_result = <<>>
    /\ collected = {}
    /\ crawler_stats = InitCrawlerStats
    /\ processed_videos = {}
    /\ failed_videos = {}
    /\ pool_pc = "idle"
    /\ fetch_failed = {}
    /\ stored_total = 0

\* crawler.py:20-21: self.config.validate()
CtorValidate ==
    /\ api_pc = "new"
    /\ api_pc' = IF validate(YOUTUBE_API_KEY) THEN "validated" ELSE "raised"
    /\ UNCHANGED <<YOUTUBE_API_KEY, db_opened, session_status, api_requests,
                   search_queue, api_videos, api_max_videos, extract_subtitles_arg,
                   search_queries>>
    /\ UNCHANGED <<crawlVars, storeVars, ingestVars, dbHistVars, poolVars>>
    /\ UNCHANGED classifyVars
    /\ UNCHANGED multiVars
    /\ UNCHANGED search_failed
    /\ UNCHANGED sharedVars

\* crawler.py:24: self.db = DatabaseManager(...) creates the file and tables
CtorOpenDb ==
    /\ api_pc = "validated"
    /\ db_opened' = TRUE
    /\ api_pc' = "db_ready"
    /\ UNCHANGED <<YOUTUBE_API_KEY, session_status, api_requests, search_queue,
                   api_videos, api_max_videos, extract_subtitles_arg,
                   search_queries>>
    /\ UNCHANGED <<crawlVars, storeVars, ingestVars, dbHistVars, poolVars>>
    /\ UNCHANGED classifyVars
    /\ UNCHANGED multiVars
    /\ UNCHANGED search_failed
    /\ UNCHANGED sharedVars

\* crawler.py:25-43: YouTubeAPI(key) raises on an empty key
\* (youtube_api.py:14-16); the rest of the constructor sets fields
CtorComponents ==
    /\ api_pc = "db_ready"
    /\ api_pc' = IF YOUTUBE_API_KEY # "" THEN "constructed" ELSE "raised"
    /\ UNCHANGED <<YOUTUBE_API_KEY, db_opened, session_status, api_requests,
                   search_queue, api_videos, api_max_videos, extract_subtitles_arg,
                   search_queries>>
    /\ UNCHANGED <<crawlVars, storeVars, ingestVars, dbHistVars, poolVars>>
    /\ UNCHANGED classifyVars
    /\ UNCHANGED multiVars
    /\ UNCHANGED search_failed
    /\ UNCHANGED sharedVars

\* crawler.py:76: start_crawl_session inserts the row with status 'running',
\* or prints the sqlite error and returns False
StartSession ==
    /\ api_pc = "constructed"
    /\ \E io_ok \in BOOLEAN :
          session_status' = IF io_ok THEN "running" ELSE "none"
    /\ api_pc' = "searching"
    /\ UNCHANGED <<YOUTUBE_API_KEY, db_opened, api_requests, search_queue,
                   api_videos, api_max_videos, extract_subtitles_arg,
                   search_queries>>
    /\ UNCHANGED <<crawlVars, storeVars, ingestVars, dbHistVars, poolVars>>
    /\ UNCHANGED classifyVars
    /\ UNCHANGED multiVars
    /\ UNCHANGED search_failed
    /\ UNCHANGED sharedVars

\* update_crawl_session(status=...) (database.py:188-215): an UPDATE of the
\* session's row, if there is one and sqlite takes it
update_crawl_session(status, new_status, io_ok) ==
    IF io_ok /\ status # "none" THEN new_status ELSE status

\* _should_process_video (crawler.py:166-193), video_exists having returned
\* `exists`; passes: the duration and whitelist tests
should_process_video(video_id, exists, passes) ==
    /\ video_id \notin processed_videos
    /\ ~exists
    /\ passes

\* one result of the search generator goes through the loop body
\* (crawler.py:142-157)
SearchStep ==
    /\ api_pc = "searching"
    /\ search_queue # <<>>
    /\ Len(api_videos) < api_max_videos
    /\ \E passes \in BOOLEAN, io_ok \in BOOLEAN :
        LET video_id == Head(search_queue)
            exists == DatabaseManager_video_exists(videos, video_id)
            take == should_process_video(video_id, exists, passes)
            ins == DatabaseManager_insert_video(videos, VideoRow(video_id, <<"api", 1>>), io_ok)
        IN  /\ (~take => io_ok)
            /\ api_videos' = IF take THEN Append(api_videos, video_id) ELSE api_videos
            /\ videos' = IF take THEN ins.table ELSE videos
            /\ crawler_stats' =
                  [crawler_stats EXCEPT
                      !.videos_found = @ + (IF take THEN 1 ELSE 0),
                      !.skipped_existing =
                          @ + (IF video_id \notin processed_videos /\ exists THEN 1 ELSE 0)]
    /\ search_queue' = Tail(search_queue)
    /\ api_requests' = api_requests + 1
    /\ UNCHANGED <<YOUTUBE_API_KEY, api_pc, db_opened, session_status, api_max_videos,
                   extract_subtitles_arg,
                   search_queries>>
    /\ UNCHANGED <<crawlVars, subtitles, mapping, ingestVars, dbHistVars,
                   MAX_CONCURRENT_DOWNLOADS, future_to_video, task, task_result,
                   collected, processed_videos, failed_videos, pool_pc, fetch_failed,
                   stored_total>>
    /\ UNCHANGED classifyVars
    /\ UNCHANGED multiVars
    /\ UNCHANGED search_failed
    /\ UNCHANGED sharedVars

\* where an HttpError of one query's search request goes: with custom
\* queries search_videos re-raises it (youtube_api.py:98-102) into
\* _search_videos; the automatic search catches it per query and goes on
\* with the next query (youtube_api.py:250-265)
SearchErrorPropagates_Never(queries) == FALSE

SearchErrorPropagates(queries) == queries = "custom"

\* an exception reaches _search_videos, from the search request of a custom
\* query or from video_exists (database.py:132-137, no except clause):
\* _search_videos re-raises (crawler.py:162-164) and crawl_farsi_videos marks
\* the session failed and raises (lines 100-103)
SearchRaise ==
    /\ api_pc = "searching"
    /\ search_queue # <<>>
    /\ Len(api_videos) < api_max_videos
    /\ \E cause \in {"search", "video_exists"} :
        /\ cause = "search" => SearchErrorPropagates(search_queries)
        /\ search_failed' = search_failed + (IF cause = "search" THEN 1 ELSE 0)
    /\ \E io_ok \in BOOLEAN :
          session_status' = update_crawl_session(session_status, "failed", io_ok)
    /\ api_requests' = api_requests + 1
    /\ api_pc' = "failed"
    /\ UNCHANGED <<YOUTUBE_API_KEY, db_opened, search_queue, api_videos,
                   api_max_videos, extract_subtitles_arg, search_queries>>
    /\ UNCHANGED <<crawlVars, storeVars, ingestVars, dbHistVars, poolVars>>
    /\ UNCHANGED classifyVars
    /\ UNCHANGED multiVars
    /\ UNCHANGED sharedVars

\* the search request of one query of the automatic search raises:
\* search_farsi_videos prints the error and continues with the next query
\* (youtube_api.py:263-265); the results of the failed request are not yielded
SearchQueryError ==
    /\ api_pc = "searching"
    /\ search_queue # <<>>
    /\ Len(api_videos) < api_max_videos
    /\ ~SearchErrorPropagates(search_queries)
    /\ search_queue' = Tail(search_queue)
    /\ search_failed' = search_failed + 1
    /\ api_requests' = api_requests + 1
    /\ UNCHANGED <<YOUTUBE_API_KEY, api_pc, db_opened, session_status, api_videos,
                   api_max_videos, extract_subtitles_arg, search_queries>>
    /\ UNCHANGED <<crawlVars, storeVars, ingestVars, dbHistVars, poolVars>>
    /\ UNCHANGED classifyVars
    /\ UNCHANGED multiVars
    /\ UNCHANGED sharedVars

\* the search loop is over (crawler.py:143-144, 159-160); phase 2 submits the
\* videos to the pool if there are any and subtitles are asked for (84-86)
SearchDone ==
    /\ api_pc = "searching"
    /\ search_queue = <<>> \/ Len(api_videos) >= api_max_videos
    /\ IF extract_subtitles_arg /\ api_videos # <<>>
       THEN /\ api_pc' = "pool"
            /\ pool_pc' = "pool"
            /\ future_to_video' = api_videos
            /\ task' = [i \in DOMAIN api_videos |-> "pending"]
            /\ task_result' = [i \in DOMAIN api_videos |-> Unset]
       ELSE /\ api_pc' = "finishing"
            /\ UNCHANGED <<pool_pc, future_to_video, task, task_result>>
    /\ UNCHANGED <<YOUTUBE_API_KEY, db_opened, session_status, api_requests,
                   search_queue, api_videos, api_max_videos, extract_subtitles_arg,
                   search_queries>>
    /\ UNCHANGED <<crawlVars, storeVars, ingestVars, dbHistVars,
                   MAX_CONCURRENT_DOWNLOADS, collected, crawler_stats,
                   processed_videos, failed_videos, fetch_failed, stored_total>>
    /\ UNCHANGED classifyVars
    /\ UNCHANGED multiVars
    /\ UNCHANGED search_failed
    /\ UNCHANGED sharedVars

\* crawler.py:89-98: the session is marked completed and the stats returned
ApiFinish ==
    /\ \/ api_pc = "finishing"
       \/ api_pc = "pool" /\ pool_pc = "returned"
    /\ \E io_ok \in BOOLEAN :
          session_status' = update_crawl_session(session_status, "completed", io_ok)
    /\ api_pc' = "returned"
    /\ UNCHANGED <<YOUTUBE_API_KEY, db_opened, api_requests, search_queue,
                   api_videos, api_max_videos, extract_subtitles_arg,
                   search_queries>>
    /\ UNCHANGED <<crawlVars, storeVars, ingestVars, dbHistVars, poolVars>>
    /\ UNCHANGED classifyVars
    /\ UNCHANGED multiVars
    /\ UNCHANGED search_failed
    /\ UNCHANGED sharedVars

NextApi ==
    \/ CtorValidate
    \/ CtorOpenDb
    \/ CtorComponents
    \/ StartSession
    \/ SearchStep
    \/ SearchRaise
    \/ SearchQueryError
    \/ SearchDone
    \/ TaskStart
    \/ TaskFinish
    \/ Collect
    \/ PoolReturn
    \/ ApiFinish

SpecApi == InitApi /\ [][NextApi]_vars

\* C17: with an empty YOUTUBE_API_KEY the constructor raises in
\* Config.validate: the database is never opened, no session is started and
\* nothing is fetched.
C17_MissingKeyFatalBeforeWork ==
    YOUTUBE_API_KEY = ""
        => /\ api_pc \in {"new", "raised"}
           /\ ~db_opened
           /\ session_status = "none"
           /\ api_requests = 0
           /\ videos = EmptyBag

\* the constructor has raised for an empty key
C17_Witness ==
    /\ YOUTUBE_API_KEY = ""
    /\ api_pc = "raised"


\* C26: the frontier is first-in-first-out.  Every step of the loop takes the
\* locator at the front of the queue, the one appended earliest, and a
\* fetched page's candidates go behind everything that was queued ahead of
\* them: the entries already queued keep their places at the front, in order.
\* So a locator appended before another is fetched before it.
C26_FrontierIsFifo ==
    [][(urls_to_visit' # urls_to_visit \/ fetch_log' # fetch_log)
          => /\ urls_to_visit # <<>>
             /\ fetch_log' # fetch_log
                  => /\ Len(fetch_log') = Len(fetch_log) + 1
                     /\ fetch_log'[Len(fetch_log')].url = Head(urls_to_visit)
             /\ LET ahead == Tail(urls_to_visit)
                    k == Min(Len(ahead), Len(urls_to_visit'))
                IN  SubSeq(urls_to_visit', 1, k) = SubSeq(ahead, 1, k)]_vars

\* two candidates of the seed page were queued and fetched in the order of
\* their appending
C26_Witness ==
    /\ Len(fetch_log) = 3
    /\ fetch_log[1].url = <<"short", 1>>
    /\ fetch_log[2].url = <<"watch", 1>>
    /\ fetch_log[3].url = <<"watch", 2>>
    /\ fetch_log[2].is_farsi = FALSE


\* the pages of the run that the loop read as Farsi, in the order of fetching
FetchedFarsi == SelectSeq(fetch_log, LAMBDA e : e.is_farsi)

\* C27: the accepted items are returned in discovery order: they are the
\* pages fetched in this run and classified as Farsi, in the order in which
\* they were fetched, whatever their scores.
C27_AcceptedInDiscoveryOrder ==
    /\ Len(farsi_videos) = Len(FetchedFarsi)
    /\ \A i \in 1..Len(farsi_videos) :
          /\ farsi_videos[i].url = FetchedFarsi[i].url
          /\ farsi_videos[i].is_farsi

\* the crawl returned two accepted items, with a page that was not accepted
\* fetched between them
C27_Witness ==
    /\ Returned
    /\ Len(farsi_videos) = 2
    /\ Len(fetch_log) = 3
    /\ ~fetch_log[2].is_farsi


\* C28: after each expansion the queue holds at most max_queue_size
\* locators, and the truncation keeps exactly the first max_queue_size
\* entries in their order, dropping only entries at the back; so the queue
\* is never longer than max_queue_size when a crawl step starts.
C28_QueueWithinLimitPrefixKept ==
    /\ Len(urls_to_visit) <= QueueLimit
    /\ slice_outcome \in {"none", "kept_all", "kept_first"}

\* an expansion made the queue longer than the limit and the truncation cut
\* it back to its first entries
C28_Witness ==
    /\ last = "ok"
    /\ slice_outcome = "kept_first"
    /\ Len(urls_to_visit) = QueueLimit

\* C31: on every finite link graph the crawl terminates: find_farsi_videos
\* eventually returns, with an empty queue or with max_videos accepted items,
\* whatever cycles the graph has and whichever fetches fail.
C31_CrawlTerminates ==
    <>(Returned /\ (urls_to_visit = <<>> \/ Len(farsi_videos) = max_videos))

\* the queue has run empty below the cap after a failed fetch, and the last
\* locator popped was one a cycle of the graph had queued a second time
C31_Witness ==
    /\ pc = "loop"
    /\ last = "skip"
    /\ urls_to_visit = <<>>
    /\ failed_fetches >= 1
    /\ Len(farsi_videos) < max_videos

\* C29: expansion enqueues a related candidate only if it is neither in
\* visited nor already in the queue, so the queue never contains the same
\* locator twice.
C29_QueueHasNoDuplicates ==
    \A i, j \in 1..Len(urls_to_visit) :
        i # j => urls_to_visit[i] # urls_to_visit[j]


\* C30: a single-seed crawl performs at most a configured maximum number of
\* steps: the number of page fetches of one run stays within a step cap that
\* does not depend on max_videos or on the link graph.
C30_FetchesWithinStepCap == Len(fetch_log) <= MaxStepCount

(***************************************************************************)
(* The language score of _extract_video_info (youtube_scraper.py:250-258). *)
(* A character is given by its class: what PERSIAN_CHARS and str.isalpha   *)
(* say about it.                                                           *)
(***************************************************************************)
\* "farsi_letter": U+0633 and the like; "farsi_digit": U+06F1, U+060C and
\* the other digits, marks and punctuation of the Arabic blocks;
\* "latin_letter": a letter outside the blocks; "digit": an ASCII digit or
\* punctuation mark; "space": white space
CharClasses == {"farsi_letter", "farsi_digit", "latin_letter", "digit", "space"}

\* FarsiDetector.PERSIAN_CHARS (youtube_scraper.py:33): the code point lies in
\* one of the five Arabic blocks, whatever its category
PERSIAN_CHARS(c) == c \in {"farsi_letter", "farsi_digit"}

\* str.isalpha: the code point is a letter (category L*)
isalpha(c) == c \in {"farsi_letter", "latin_letter"}

\* youtube_scraper.py:256: len(PERSIAN_CHARS.findall(text_to_check))
farsi_chars(text) ==
    Cardinality({i \in 1..Len(text) : PERSIAN_CHARS(text[i])})

\* youtube_scraper.py:257: len([c for c in text_to_check if c.isalpha()])
total_chars(text) ==
    Cardinality({i \in 1..Len(text) : isalpha(text[i])})

\* youtube_scraper.py:255-258: farsi_chars / total_chars, 0.0 without letters
score(text) ==
    IF text # <<>> /\ total_chars(text) > 0
    THEN <<farsi_chars(text), total_chars(text)>>
    ELSE ZeroScore

InitScore ==
    /\ CrawlIdle
    /\ StoreEmpty
    /\ IngestIdle
    /\ DbHistIdle
    /\ PoolIdle
    /\ ApiIdle
    /\ \E title, description \in SeqsUpTo(CharClasses, MaxTextLen) :
           \* youtube_scraper.py:250: f"{info['title']} {info['description']}"
           text_to_check = title \o <<"space">> \o description
    /\ farsi_score = ZeroScore
    /\ score_pc = "new"
    /\ DetectIdle
    /\ MultiIdle
    /\ SharedIdle

\* info['farsi_score'] is computed
ComputeScore ==
    /\ score_pc = "new"
    /\ farsi_score' = score(text_to_check)
    /\ score_pc' = "scored"
    /\ UNCHANGED <<text_to_check, detectVars, crawlVars, storeVars, ingestVars,
                   dbHistVars, poolVars, apiVars>>
    /\ UNCHANGED multiVars
    /\ UNCHANGED sharedVars

NextScore ==
    \/ ComputeScore

SpecScore == InitScore /\ [][NextScore]_vars

\* C20: the score lies in [0,1]: the numerator never exceeds the
\* denominator, and the score is 0.0 for a text without alphabetic characters.
C20_ScoreInUnitInterval ==
    score_pc = "scored"
        => /\ 0 <= farsi_score[1]
           /\ farsi_score[1] <= farsi_score[2]
           /\ (total_chars(text_to_check) = 0 => farsi_score[1] = 0)

(***************************************************************************)
(* FarsiDetector.detect_farsi (youtube_scraper.py:43-78).                  *)
(***************************************************************************)
\* the min_farsi_ratio values tried: 0, the default 0.1, 1/2 and 1
MinRatios == {<<0, 1>>, DefaultRatio, <<1, 2>>, <<1, 1>>}

\* what detect(text) can do: report Persian, report another language, or
\* raise LangDetectException
DetectOutcomes == {"fa", "en", "raise"}

\* the positions of the text that str.strip keeps from: the non-white ones
NonWhite(text) == {i \in 1..Len(text) : text[i] # "space"}

\* str.strip: the text without its leading and trailing white space
strip(text) ==
    IF NonWhite(text) = {} THEN <<>>
    ELSE LET first == CHOOSE i \in NonWhite(text) : \A j \in NonWhite(text) : i <= j
             final == CHOOSE i \in NonWhite(text) : \A j \in NonWhite(text) : j <= i
         IN  SubSeq(text, first, final)

\* youtube_scraper.py:54: not text or len(text.strip()) < 3
TooShort_Never(text) == FALSE

TooShort(text) == text = <<>> \/ Len(strip(text)) < 3

\* FarsiDetector.has_farsi_chars (youtube_scraper.py:36-40)
has_farsi_chars(text) ==
    IF text = <<>> THEN FALSE
    ELSE \E i \in 1..Len(text) : PERSIAN_CHARS(text[i])

\* youtube_scraper.py:71-76: the try block returns True only when detect
\* returned 'fa'; LangDetectException is passed over
DetectorSaysFarsi_OnFailure(lang) == lang \in {"fa", "raise"}

DetectorSaysFarsi(lang) == lang = "fa"

\* youtube_scraper.py:68, 78: persian_chars / total_chars >= min_farsi_ratio,
\* for total_chars > 0, by cross-multiplication
RatioAtLeast(persian, total, ratio) == persian * ratio[2] >= ratio[1] * total

\* FarsiDetector.detect_farsi
detect_farsi(text, ratio, lang) ==
    IF TooShort(text) THEN FALSE
    ELSE IF ~has_farsi_chars(text) THEN FALSE
    ELSE IF total_chars(text) = 0 THEN FALSE
    ELSE IF DetectorSaysFarsi(lang) THEN TRUE
    ELSE RatioAtLeast(farsi_chars(text), total_chars(text), ratio)

InitDetect ==
    /\ CrawlIdle
    /\ StoreEmpty
    /\ IngestIdle
    /\ DbHistIdle
    /\ PoolIdle
    /\ ApiIdle
    /\ ScoreIdle
    /\ MultiIdle
    /\ SharedIdle
    /\ text_arg \in SeqsUpTo(CharClasses, MaxDetectLen)
    /\ min_farsi_ratio \in MinRatios
    /\ detected_lang \in DetectOutcomes
    /\ detect_farsi_result = FALSE
    /\ detect_pc = "call"

\* one call of detect_farsi
CallDetect ==
    /\ detect_pc = "call"
    /\ detect_farsi_result' = detect_farsi(text_arg, min_farsi_ratio, detected_lang)
    /\ detect_pc' = "returned"
    /\ UNCHANGED <<text_arg, min_farsi_ratio, detected_lang, text_to_check,
                   farsi_score, score_pc, crawlVars, storeVars, ingestVars,
                   dbHistVars, poolVars, apiVars>>
    /\ UNCHANGED multiVars
    /\ UNCHANGED sharedVars

NextDetect ==
    \/ CallDetect

SpecDetect == InitDetect /\ [][NextDetect]_vars

\* C21: detect_farsi returns false for every text that is empty or has fewer
\* than 3 characters once its leading and trailing white space is removed,
\* whatever its characters and whatever the detector reports.
C21_ShortTextIsNotFarsi ==
    (detect_pc = "returned" /\ (text_arg = <<>> \/ Len(strip(text_arg)) < 3))
        => detect_farsi_result = FALSE

\* a call returned False on a two-letter Persian text that the detector
\* reports as Persian
C21_Witness ==
    /\ detect_pc = "returned"
    /\ strip(text_arg) = <<"farsi_letter", "farsi_letter">>
    /\ Len(text_arg) > 2
    /\ detected_lang = "fa"
    /\ detect_farsi_result = FALSE

\* the text reaches the minimum length and the call has returned
LongEnoughReturned ==
    detect_pc = "returned" /\ text_arg # <<>> /\ Len(strip(text_arg)) >= 3

\* score(text) >= min_ratio, the score being 0.0 for a text without letters
ScoreAtLeast(text, ratio) == RatioAtLeast(score(text)[1], score(text)[2], ratio)

\* a detector failure gives what the ratio alone gives
FailureIsNoOpinion ==
    (LongEnoughReturned /\ detected_lang = "raise")
        => (detect_farsi_result <=>
                (has_farsi_chars(text_arg) /\ total_chars(text_arg) > 0
                    /\ ScoreAtLeast(text_arg, min_farsi_ratio)))

\* a text without alphabetic characters is never classified as Persian
NoLettersIsNotFarsi ==
    (LongEnoughReturned /\ total_chars(text_arg) = 0)
        => detect_farsi_result = FALSE

\* C22 as stated: for every text of at least the minimum length, detect_farsi
\* is true iff the text has a character of the Persian ranges and (the ratio
\* is at least min_ratio or the detector reports Persian); a detector failure
\* gives the result of the detector reporting another language; a text
\* without alphabetic characters is never classified as Persian.
C22_FarsiIffCharsAndRatioOrDetector ==
    /\ LongEnoughReturned
        => (detect_farsi_result <=>
                (has_farsi_chars(text_arg)
                    /\ (ScoreAtLeast(text_arg, min_farsi_ratio)
                            \/ detected_lang = "fa")))
    /\ FailureIsNoOpinion
    /\ NoLettersIsNotFarsi

\* C22 amended: for every text of at least the minimum length that has an
\* alphabetic character, detect_farsi is true iff the text has a character of
\* the Persian ranges and (the ratio is at least min_ratio or the detector
\* reports Persian); a text without alphabetic characters is never classified
\* as Persian, whatever min_ratio and the detector; a detector failure gives
\* the result of the detector reporting another language.
C22_FarsiIffCharsAndRatioOrDetectorGivenLetters ==
    /\ (LongEnoughReturned /\ total_chars(text_arg) > 0)
        => (detect_farsi_result <=>
                (has_farsi_chars(text_arg)
                    /\ (ScoreAtLeast(text_arg, min_farsi_ratio)
                            \/ detected_lang = "fa")))
    /\ FailureIsNoOpinion
    /\ NoLettersIsNotFarsi

\* the detector decided: a text of three letters, one of them Persian, is
\* below the ratio 1/2 and is classified as Persian because the detector
\* reports it
C22_Witness ==
    /\ LongEnoughReturned
    /\ farsi_chars(text_arg) = 1
    /\ total_chars(text_arg) = 3
    /\ min_farsi_ratio = <<1, 2>>
    /\ detected_lang = "fa"
    /\ detect_farsi_result = TRUE

(***************************************************************************)
(* crawl_multiple_urls (scraping_crawler.py:101-146) over crawl_from_url   *)
(* and find_farsi_videos.                                                  *)
(***************************************************************************)
\* Config.MAX_VIDEOS_PER_SEARCH (config.py:19): 50 by default, scaled down
MAX_VIDEOS_PER_SEARCH == 1

\* scraping_crawler.py:43: max_videos or self.config.max_videos_per_search;
\* 0 and None are both falsy
EffectiveMaxVideos(m) == IF m = 0 \/ m = None THEN MAX_VIDEOS_PER_SEARCH ELSE m

\* the start_urls lists tried: one or two locators
StartUrlLists == {l \in SeqsUpTo(StartUrls, MaxStartUrls) : l # <<>>}

InitMulti ==
    /\ CrawlIdle
    /\ StoreEmpty
    /\ IngestIdle
    /\ DbHistIdle
    /\ PoolIdle
    /\ ApiIdle
    /\ ClassifyIdle
    /\ start_urls \in StartUrlLists
    /\ max_videos_per_url \in 0..MaxVideosBound
    /\ combined_stats = InitCombinedStats
    /\ url_i = 0
    /\ multi_pc = "loop"
    /\ found_of_url = <<>>
    /\ SharedIdle

\* scraping_crawler.py:125-129, 43-60: the for loop takes the next URL and
\* calls crawl_from_url, which calls find_farsi_videos
MultiCall ==
    /\ multi_pc = "loop"
    /\ url_i < Len(start_urls)
    /\ start_url' = start_urls[url_i + 1]
    /\ max_videos' = EffectiveMaxVideos(max_videos_per_url)
    /\ farsi_videos' = <<>>
    /\ visited_urls' = {}
    /\ urls_to_visit' = <<start_urls[url_i + 1]>>
    /\ pc' = "loop"
    /\ stats' = InitStats
    /\ fetch_count' = [u \in Urls |-> 0]
    /\ fetch_log' = <<>>
    /\ slice_outcome' = "none"
    /\ failed_fetches' = 0
    /\ last' = "none"
    /\ multi_pc' = "call"
    /\ UNCHANGED <<start_urls, max_videos_per_url, combined_stats, url_i,
                   found_of_url>>
    /\ UNCHANGED <<storeVars, ingestVars, dbHistVars, poolVars, apiVars,
                   classifyVars>>
    /\ UNCHANGED sharedVars

\* scraping_crawler.py:129-137: crawl_from_url has returned its stats; the
\* counters are added up
MultiCombine ==
    /\ multi_pc = "call"
    /\ pc \in {"returned", "process"}
    /\ combined_stats' =
          [combined_stats EXCEPT !.videos_found = @ + stats.videos_found,
                                 !.urls_processed = @ + 1]
    /\ found_of_url' = Append(found_of_url, stats.videos_found)
    /\ url_i' = url_i + 1
    /\ multi_pc' = "loop"
    /\ pc' = "idle"
    /\ UNCHANGED <<start_url, max_videos, farsi_videos, visited_urls,
                   urls_to_visit, stats, fetch_count, fetch_log, slice_outcome,
                   failed_fetches, last>>
    /\ UNCHANGED <<start_urls, max_videos_per_url>>
    /\ UNCHANGED <<storeVars, ingestVars, dbHistVars, poolVars, apiVars,
                   classifyVars>>
    /\ UNCHANGED sharedVars

\* scraping_crawler.py:143-146
MultiReturn ==
    /\ multi_pc = "loop"
    /\ url_i = Len(start_urls)
    /\ multi_pc' = "returned"
    /\ UNCHANGED <<start_urls, max_videos_per_url, combined_stats, url_i,
                   found_of_url>>
    /\ UNCHANGED <<crawlVars, storeVars, ingestVars, dbHistVars, poolVars,
                   apiVars, classifyVars>>
    /\ UNCHANGED sharedVars

NextMulti ==
    \/ MultiCall
    \/ IterSkip
    \/ IterInvalid
    \/ IterError
    \/ IterOk
    \/ FindReturn
    \/ MultiCombine
    \/ MultiReturn

SpecMulti == InitMulti /\ [][NextMulti]_vars

\* C23: for every call crawl_multiple_urls(start_urls, max_videos_per_url = m)
\* with m >= 0, the number of videos found from each start URL is at most m,
\* and the combined videos_found is at most m times the number of start URLs.
C23_FoundPerUrlAtMostM ==
    /\ \A i \in 1..Len(found_of_url) : found_of_url[i] <= max_videos_per_url
    /\ combined_stats.videos_found <= max_videos_per_url * Len(start_urls)

\* C35: the tasks submitted to the worker pool in one run are for pairwise
\* different content ids, also when the same video is returned by several
\* search queries or when a metadata write fails.
C35_SubmittedIdsDistinct ==
    \A i, j \in DOMAIN future_to_video :
        i # j => future_to_video[i] # future_to_video[j]

\* C37: in every reachable store state each caption row refers to a stored
\* item: no caption is persisted for a content id whose metadata row is
\* absent, also when the metadata write for that item failed.
C37_CaptionsReferToStoredItems ==
    \A r \in BagToSet(subtitles) : DatabaseManager_video_exists(videos, r.video_id)

\* C39: a crawl session started by crawl_farsi_videos never stays 'running'
\* once the call has ended: its row is 'completed' when the call has
\* returned and 'failed' when the call has raised.
C39_SessionEndsWithCall ==
    /\ api_pc \in {"returned", "failed"} => session_status # "running"
    /\ (api_pc = "returned" /\ session_status # "none") => session_status = "completed"
    /\ (api_pc = "failed" /\ session_status # "none") => session_status = "failed"

\* C25: an error while searching for one query is caught, counted in errors
\* and skipped: the surrounding crawl goes on with the remaining results and
\* returns its statistics instead of raising.
C25_SearchErrorsAreLocal ==
    /\ search_failed > 0 => api_pc # "failed"
    /\ crawler_stats.errors >= search_failed

(***************************************************************************)
(* Crawler instances that share one database file.  Each instance runs the *)
(* for loop of crawl_from_url over its own accepted items; _process_video  *)
(* (scraping_crawler.py:164-192) calls video_exists, insert_video and the   *)
(* download one after the other, and VideoDatabase opens a connection of   *)
(* its own for every call (database.py:229, 242), so each call is one      *)
(* sqlite transaction and the calls of the instances interleave.           *)
(***************************************************************************)
\* the items an instance can be given: content ids, each at most once
InstanceItemLists ==
    {l \in SeqsUpTo(VideoIds, MaxInstanceItems) :
        Len(l) >= 1 /\ \A i, j \in 1..Len(l) : i # j => l[i] # l[j]}

\* the download of an item, which brings the video file
InstanceDownload == [video_file |-> TRUE, subtitle_files |-> {}, mapping_ok |-> TRUE]

InitShared ==
    /\ CrawlIdle
    /\ StoreEmpty
    /\ IngestIdle
    /\ DbHistIdle
    /\ PoolIdle
    /\ ApiIdle
    /\ ClassifyIdle
    /\ MultiIdle
    /\ inst_items \in [Instances -> InstanceItemLists]
    /\ inst_idx = [i \in Instances |-> 1]
    /\ inst_pc = [i \in Instances |-> "check"]
    /\ inst_download_content \in BOOLEAN
    /\ inst_inserted = [i \in Instances |-> {}]
    /\ inst_downloaded = [i \in Instances |-> {}]
    /\ inst_skipped = [i \in Instances |-> {}]

\* the item instance i is processing
InstanceItem(i) == inst_items[i][inst_idx[i]]

\* lines 164-168: video_exists, and the early return when the row is there
InstanceCheck(i) ==
    /\ inst_pc[i] = "check"
    /\ inst_idx[i] <= Len(inst_items[i])
    /\ IF VideoDatabase_video_exists(videos, InstanceItem(i), TRUE)
       THEN /\ inst_skipped' = [inst_skipped EXCEPT ![i] = @ \cup {InstanceItem(i)}]
            /\ inst_idx' = [inst_idx EXCEPT ![i] = @ + 1]
            /\ UNCHANGED inst_pc
       ELSE /\ inst_pc' = [inst_pc EXCEPT ![i] = "insert"]
            /\ UNCHANGED <<inst_skipped, inst_idx>>
    /\ UNCHANGED <<inst_items, inst_download_content, inst_inserted, inst_downloaded>>
    /\ UNCHANGED <<crawlVars, storeVars, ingestVars, dbHistVars, poolVars, apiVars,
                   classifyVars, multiVars>>

\* lines 170-183: insert_video; without download_content the item is done
InstanceInsert(i) ==
    /\ inst_pc[i] = "insert"
    /\ LET ins == VideoDatabase_insert_video(
                      videos, VideoRow(InstanceItem(i), <<"watch", InstanceItem(i)>>), TRUE)
       IN  /\ videos' = ins.table
           /\ inst_inserted' = IF ins.ok
                               THEN [inst_inserted EXCEPT ![i] = @ \cup {InstanceItem(i)}]
                               ELSE inst_inserted
    /\ IF ContentWanted(inst_download_content)
       THEN /\ inst_pc' = [inst_pc EXCEPT ![i] = "download"]
            /\ UNCHANGED inst_idx
       ELSE /\ inst_pc' = [inst_pc EXCEPT ![i] = "check"]
            /\ inst_idx' = [inst_idx EXCEPT ![i] = @ + 1]
    /\ UNCHANGED <<inst_items, inst_download_content, inst_downloaded, inst_skipped>>
    /\ UNCHANGED <<subtitles, mapping>>
    /\ UNCHANGED <<crawlVars, ingestVars, dbHistVars, poolVars, apiVars,
                   classifyVars, multiVars>>

\* lines 185-222: download_video_with_subtitles, which appends the mapping
\* record
InstanceDownloadItem(i) ==
    /\ inst_pc[i] = "download"
    /\ mapping' = AppendLine(mapping,
                             MappingLine(<<"watch", InstanceItem(i)>>, InstanceDownload))
    /\ inst_downloaded' = [inst_downloaded EXCEPT ![i] = @ \cup {InstanceItem(i)}]
    /\ inst_pc' = [inst_pc EXCEPT ![i] = "check"]
    /\ inst_idx' = [inst_idx EXCEPT ![i] = @ + 1]
    /\ UNCHANGED <<inst_items, inst_download_content, inst_inserted, inst_skipped>>
    /\ UNCHANGED <<videos, subtitles>>
    /\ UNCHANGED <<crawlVars, ingestVars, dbHistVars, poolVars, apiVars,
                   classifyVars, multiVars>>

\* the for loop of instance i is over
InstanceReturn(i) ==
    /\ inst_pc[i] = "check"
    /\ inst_idx[i] > Len(inst_items[i])
    /\ inst_pc' = [inst_pc EXCEPT ![i] = "done"]
    /\ UNCHANGED <<inst_items, inst_idx, inst_download_content, inst_inserted,
                   inst_downloaded, inst_skipped>>
    /\ UNCHANGED <<crawlVars, storeVars, ingestVars, dbHistVars, poolVars, apiVars,
                   classifyVars, multiVars>>

NextShared ==
    \/ \E i \in Instances : InstanceCheck(i)
    \/ \E i \in Instances : InstanceInsert(i)
    \/ \E i \in Instances : InstanceDownloadItem(i)
    \/ \E i \in Instances : InstanceReturn(i)

SpecShared == InitShared /\ [][NextShared]_vars

\* the instances that have handled content id `id`
InstancesWith(id) == {i \in Instances : \E k \in 1..(inst_idx[i] - 1) : inst_items[i][k] = id}

\* C36: when crawler instances share one store and meet the same new item,
\* the existence check and the insert act atomically: under every
\* interleaving exactly one instance persists the item and downloads it, and
\* every other instance treats it as already present.
C36_OneInstancePersistsAndDownloads ==
    \A id \in VideoIds :
        /\ Cardinality({i \in Instances : id \in inst_inserted[i]}) <= 1
        /\ Cardinality({i \in Instances : id \in inst_downloaded[i]}) <= 1
        /\ \A i \in InstancesWith(id) :
              id \in inst_skipped[i] \/ id \in inst_inserted[i]

====
